---- MODULE Spec2Model ----
(***************************************************************************)
(* One validation run of IVALIDATE: the trigger (POST /api/validate/start), *)
(* the detached background task runValidationPipelineAsync, the            *)
(* orchestrator ValidationPipeline.execute with its ten steps, and the     *)
(* record document the run persists through updateValidation.              *)
(*                                                                         *)
(* The background task is cut at its awaits: every awaited record-store    *)
(* update and every awaited collaborator call is an action whose outcome   *)
(* (return or throw) the environment chooses.                              *)
(***************************************************************************)
EXTENDS Integers, Sequences, FiniteSets, TLC

\* ---------------------------------------------------------------- bounds
MaxPosts == 2        \* posts the discussion source can return to one search
MaxMentions == 2     \* relevant quotes the content analysis can return
MaxProbes == 2       \* probe requests one discussion search issues

\* ------------------------------------------------------- program constants
NumSteps == 10

StepNumbers == 1..NumSteps

\* a template whose fifth checkpoint lies below the fourth
StepProgress_Dip == <<15, 35, 55, 75, 70, 80, 85, 90, 95, 100>>

\* target progress of each step of the template
StepProgress == <<15, 35, 55, 75, 75, 80, 85, 90, 95, 100>>

\* steps whose step function itself calls updateStepStatus(n, 'completed')
InnerCompletionSteps == {3, 9, 10}

\* steps 4..8: one research collaborator call each
ResearchSteps == 4..8

\* steps whose completion description dereferences unvalidated result fields
UncheckedDescriptionSteps == {5, 6, 7, 8}

\* ------------------------------------------------------------ error values
NoError == [isError |-> FALSE, message |-> ""]

PreconditionError ==
  [isError |-> TRUE, message |-> "Refined idea data REQUIRED - no fallback available"]

KeywordParseError ==
  [isError |-> TRUE, message |-> "Failed to parse AI keyword response as JSON"]

KeywordIncompleteError ==
  [isError |-> TRUE, message |-> "AI returned incomplete keyword data"]

KeywordDataRequiredError ==
  [isError |-> TRUE, message |-> "AI keyword generation required for refined idea validation"]

RefinedRequiredError ==
  [isError |-> TRUE, message |-> "Refined idea data required for AI research"]

ContentAnalysisError ==
  [isError |-> TRUE, message |-> "AI content analysis failed"]

StartupAnalysisError ==
  [isError |-> TRUE, message |-> "Gemini AI analysis failed"]

InvalidResponseError ==
  [isError |-> TRUE, message |-> "Invalid AI response: missing required data"]

DescriptionTypeError ==
  [isError |-> TRUE, message |-> "Cannot read properties of undefined"]

\* what the generative-text client can throw: an Error with a message, an
\* Error with an empty message, or a value that is not an Error
ProviderErrors ==
  { [isError |-> TRUE, message |-> "The model is overloaded"],
    [isError |-> TRUE, message |-> ""],
    [isError |-> FALSE, message |-> "thrown string"] }

\* what updateValidation can throw (saveValidation / loadValidation)
StoreErrors ==
  { [isError |-> TRUE, message |-> "Failed to save validation data"],
    [isError |-> TRUE, message |-> "Failed to load validation data after multiple attempts"] }

\* ------------------------------------------------------------------ state
VARIABLES
  trig,        \* position of the trigger handler POST
  refined,     \* the request carries refinedIdeaData
  record,      \* the persisted document of the run (<<>> : no file)
  steps,       \* this.steps: status of each step, in memory
  pc,          \* position of the background task
  cur,         \* number of the step execute() is at
  updArg,      \* stepNumber argument of the updateStepStatus call in progress
  err,         \* the value thrown and not yet converted into a result
  result,      \* what execute() returned to runValidationPipelineAsync
  stepResult,  \* ProcessingResult returned by the last step function
  keywordData, \* aiKeywordData is non-null
  redditData,  \* what searchRedditDiscussions returned
  genCalls,    \* calls made to the generative-text provider
  discCalls,   \* probe requests sent to the discussion source
  invoked,     \* per step: number of invocations of its step function
  inFlight,    \* step functions called and not yet settled
  threwAt,     \* the step whose step function threw (0: none)
  storeFaults, \* record-store operations that threw during the run
  snapshots,   \* history: every document write that reached the record file
  filePath,    \* inode at data/validations/v1.json (0: no such file)
  tmpPath,     \* inode at data/validations/v1.json.tmp (0: no such file)
  inode,       \* content of each inode, a sequence of JSON tokens
  proc,        \* per process: the record-store call it is in
  lastSave,    \* history: the document of the save that completed last, no write since
  written,     \* history: documents a saveValidation call wrote in full
  clock,       \* Date.now(), in milliseconds
  cacheFile,   \* the entry at data/cache/k.json (<<>> : no such file)
  cacheOut,    \* what the last cache call returned, and when
  insight,     \* the RedditInsight handed to the scorer
  scores,      \* what calculateRealValidationScore returned
  graded,      \* what getGradeFromScore was called with and returned
  genCall,     \* a call site's use of model.generateContent, with its retries
  extraction,  \* a provider text and what parseAIResponse made of it
  search       \* the probe loop of searchRedditDiscussions

\* variables of one pipeline run
runVars == <<trig, refined, record, steps, pc, cur, updArg, err, result, stepResult,
             keywordData, redditData, genCalls, discCalls, invoked, inFlight,
             threwAt, storeFaults, snapshots>>

\* variables of the record files on disk and of the calls working on them
storeVars == <<filePath, tmpPath, inode, proc, lastSave, written>>

\* variables of the cache namespace
cacheVars == <<clock, cacheFile, cacheOut>>

\* variables of the scorer
scoreVars == <<insight, scores, graded>>

auxVars == <<genCall, extraction, search>>

vars == <<runVars, storeVars, cacheVars, scoreVars, auxVars>>

\* what a pipeline run leaves alone
sideVars == <<storeVars, cacheVars, scoreVars, auxVars>>

\* variables of the orchestrator's data flow, for UNCHANGED lists
dataVars == <<keywordData, redditData, genCalls, discCalls>>

\* ------------------------------------------------------------ record store
NoFile == <<>>

\* an update that replaces the stored record by the update object
ShallowMerge_Replace(existing, updates) == updates

\* { ...existing, ...updates }
ShallowMerge(existing, updates) ==
  [f \in (DOMAIN existing) \cup (DOMAIN updates) |->
     IF f \in DOMAIN updates THEN updates[f] ELSE existing[f]]

\* updateValidation: null and no write when the record cannot be loaded
UpdateValidation(existing, updates) ==
  IF existing = NoFile THEN NoFile ELSE ShallowMerge(existing, updates)

\* an initial document saved as PENDING
InitialRecord_Pending ==
  [id |-> "v1",
   createdAt |-> "t0",
   status |-> "PENDING",
   progress |-> 0,
   currentStep |-> "Initializing validation pipeline with real data sources..."]

\* the document the trigger saves before it starts the pipeline
InitialRecord ==
  [id |-> "v1",
   createdAt |-> "t0",
   status |-> "PROCESSING",
   progress |-> 0,
   currentStep |-> "Initializing validation pipeline with real data sources..."]

\* one entry of the write history
Snapshot(site, doc) ==
  [site |-> site, status |-> doc.status, progress |-> doc.progress,
   stepStatus |-> IF "processingSteps" \in DOMAIN doc
                    THEN [n \in StepNumbers |-> doc.processingSteps[n].status]
                    ELSE <<>>]

\* ------------------------------------------------------------ step list
TemplateDescription(n) ==
  CASE n = 1 -> "Using AI to extract searchable keywords from your idea..."
    [] n = 2 -> "Searching Reddit discussions for real user problems..."
    [] n = 3 -> "Analyzing sentiment of real posts to calculate demand..."
    [] n = 4 -> "AI researching current competitors in the market..."
    [] n = 5 -> "AI researching market size and growth data..."
    [] n = 6 -> "AI analyzing business scalability and growth potential..."
    [] n = 7 -> "AI researching competitive moat and defensibility..."
    [] n = 8 -> "AI researching unique value zone and competitive differentiation..."
    [] n = 9 -> "Combining all real data into evidence-based report..."
    [] OTHER -> "Computing final validation scores from real metrics..."

\* this.steps as the constructor leaves it
InitialSteps ==
  [n \in StepNumbers |->
     [step |-> n, progress |-> StepProgress[n], status |-> "pending",
      description |-> TemplateDescription(n)]]

\* the text execute() passes when it marks step n completed
CompletionDescription(n) ==
  CASE n = 1 -> "AI found target subreddits + keywords"
    [] n = 2 -> "Found real Reddit discussions"
    [] n = 3 -> "% of users frustrated with current solutions"
    [] n = 4 -> "Found competitors, user complaints"
    [] n = 5 -> "TAM, Growth"
    [] n = 6 -> "Scalability Score, Model"
    [] n = 7 -> "Moat Score, factors identified"
    [] n = 8 -> "UVZ Score, advantages identified"
    [] n = 9 -> "AI analysis completed using Google Gemini"
    [] OTHER -> "Validation complete! Grade"

\* updateStepStatus, the in-memory part: status always, description if truthy
MarkStep(s, n, status, description) ==
  [s EXCEPT ![n] = [@ EXCEPT !.status = status,
                              !.description = IF description # "" THEN description ELSE @]]

\* this.steps.find(s => s.status === 'processing'), 0 when there is none
FindProcessing(s) ==
  IF \E i \in StepNumbers : s[i].status = "processing"
    THEN CHOOSE i \in StepNumbers :
           /\ s[i].status = "processing"
           /\ \A j \in 1..(i - 1) : s[j].status # "processing"
    ELSE 0

\* a lookup by step number alone, whatever the status of the step
CurrentStep_AnyStatus(s, n) ==
  IF FindProcessing(s) # 0 THEN FindProcessing(s) ELSE n

\* a lookup that also falls back on step n when it has failed
CurrentStep_AlsoFailed(s, n) ==
  IF FindProcessing(s) # 0 THEN FindProcessing(s)
  ELSE IF s[n].status \in {"completed", "failed"} THEN n
  ELSE 0

\* updateStepStatus, the step whose progress and description are written:
\* the processing step, else step n if it is completed, else none (0)
CurrentStep(s, n) ==
  IF FindProcessing(s) # 0 THEN FindProcessing(s)
  ELSE IF s[n].status = "completed" THEN n
  ELSE 0

\* the update object updateStepStatus hands to updateValidation
StepUpdate(s, c) ==
  [progress |-> s[c].progress,
   currentStep |-> s[c].description,
   processingSteps |-> s]

\* ------------------------------------------------------- error conversion
\* executeStep: error instanceof Error ? error.message : 'Step failed'
StepFailedText(e) == IF e.isError THEN e.message ELSE "Step failed"

\* execute, marking the step: error instanceof Error ? error.message : 'Unknown error'
UnknownErrorText(e) == IF e.isError THEN e.message ELSE "Unknown error"

\* execute, result.error: error instanceof Error ? error.message : 'Pipeline execution failed'
CapturedMessage(e) == IF e.isError THEN e.message ELSE "Pipeline execution failed"

\* route, catch: error instanceof Error ? error.message : 'Critical pipeline failure'
CriticalMessage(e) == IF e.isError THEN e.message ELSE "Critical pipeline failure"

\* ================================================================ the scorer
\* calculateRealValidationScore of scoring/real-validation-scorer.ts on the
\* insight that searchRedditDiscussions builds from the quotes the content
\* analysis returned, and getGradeFromScore of the pipeline module.

MaxGroups == 2       \* runs of alike quotes in one content analysis result

\* a number that need not be an integer: n / d, d > 0
Rat(n, d) == [n |-> n, d |-> d]

\* Math.round: the nearest integer, a half going up
MathRound(r) == (2 * r.n + r.d) \div (2 * r.d)

Min2(a, b) == IF a <= b THEN a ELSE b

Max2(a, b) == IF a >= b THEN a ELSE b

RECURSIVE SumSeq(_)
SumSeq(s) == IF s = <<>> THEN 0 ELSE Head(s) + SumSeq(Tail(s))

\* ------------------------------------------------------- quotes
\* A quote's text is the set of the phrases, among those the scorers look
\* for, that its lower-cased form contains.
Includes(text, phrase) == phrase \in text

\* what /\$\d+/ matches
DollarAmount == "$<digits>"

highSeverityKeywords ==
  {"$", "cost", "expensive", "waste", "hours", "days", "months",
   "fortune", "thousand", "million", "losing money", "time consuming"}

competitorKeywords ==
  {"competitor", "alternative", "better than", "instead of", "compared to",
   "switch from", "disappointed with", "doesn't work", "broken", "unreliable"}

\* "i think it is fine"
TextPlain == {"k "}

\* "the cost is too high"
TextCost == {"cost"}

\* "we waste hours on this, it cost us $5 thousand; still using it and
\* looking for something else"
TextSevere ==
  {"$", DollarAmount, "thousand", "hours", "cost", "waste", "using", "looking for"}

\* "disappointed with the current tool, anyone know an alternative?"
TextSwitch == {"disappointed with", "alternative", "current", "anyone know"}

Quote(text, sentiment, upvotes) ==
  [quote |-> text, sentiment |-> sentiment, upvotes |-> upvotes]

\* the quotes the content analysis returns; upvotes are passed on as returned
QuoteKinds ==
  {Quote(TextPlain, "neutral", 0),
   Quote(TextPlain, "frustrated", 0),
   Quote(TextPlain, "neutral", -100),
   Quote(TextPlain, "satisfied", 1000000),
   Quote(TextCost, "neutral", 7),
   Quote(TextSevere, "frustrated", 40),
   Quote(TextSwitch, "frustrated", 3),
   Quote(TextSwitch, "neutral", 1)}

\* n quotes alike
Group(q, n) == [q |-> q, n |-> n]

GroupSizes == {1, 4, 6, 9, 21, 29, 79}

Groups == {Group(q, n) : q \in QuoteKinds, n \in GroupSizes}

\* aiAnalysis.relevantQuotes, as runs of alike quotes
Profiles == UNION {[1..k -> Groups] : k \in 0..MaxGroups}

\* the number of quotes in the runs for which test holds
CountOf(groups, test(_)) ==
  SumSeq([i \in 1..Len(groups) |-> IF test(groups[i].q) THEN groups[i].n ELSE 0])

\* .sort((a, b) => b.upvotes - a.upvotes): stable, descending
RECURSIVE InsertByUpvotes(_, _)
InsertByUpvotes(g, sorted) ==
  IF sorted = <<>> THEN <<g>>
  ELSE IF Head(sorted).q.upvotes >= g.q.upvotes
    THEN <<Head(sorted)>> \o InsertByUpvotes(g, Tail(sorted))
  ELSE <<g>> \o sorted

RECURSIVE SortByUpvotes(_)
SortByUpvotes(groups) ==
  IF groups = <<>> THEN <<>>
  ELSE InsertByUpvotes(groups[Len(groups)],
                       SortByUpvotes(SubSeq(groups, 1, Len(groups) - 1)))

TopQuotesKept == 10

\* .slice(0, k)
RECURSIVE Slice(_, _)
Slice(groups, k) ==
  IF groups = <<>> \/ k = 0 THEN <<>>
  ELSE IF Head(groups).n >= k THEN <<Group(Head(groups).q, k)>>
  ELSE <<Head(groups)>> \o Slice(Tail(groups), k - Head(groups).n)

NoRealData == <<>>

\* the insight searchRedditDiscussions builds
IsFrustrated(q) == q.sentiment = "frustrated"

AnyQuote(q) == TRUE

BuildInsight(groups) ==
  LET total == CountOf(groups, AnyQuote)
      upvotes == SumSeq([i \in 1..Len(groups) |-> groups[i].n * groups[i].q.upvotes])
  IN  [engagementLevel |-> Rat(upvotes, Max2(1, total)),
       realData |-> [totalMentions |-> total,
                     frustratedUsers |-> CountOf(groups, IsFrustrated),
                     topQuotes |-> Slice(SortByUpvotes(groups), TopQuotesKept)]]

\* an insight without realData, which the type RedditInsight allows
InsightWithoutRealData == [engagementLevel |-> Rat(0, 1), realData |-> NoRealData]

\* ------------------------------------------------------- market demand
\* a mention tier whose >= 25 boundary is exclusive
MentionScore_Exclusive(totalMentions) ==
  IF totalMentions >= 100 THEN 30
  ELSE IF totalMentions >= 50 THEN 26
  ELSE IF totalMentions > 25 THEN 22
  ELSE IF totalMentions >= 15 THEN 18
  ELSE IF totalMentions >= 10 THEN 14
  ELSE IF totalMentions >= 5 THEN 10
  ELSE IF totalMentions >= 1 THEN 6
  ELSE 0

MentionScore(totalMentions) ==
  IF totalMentions >= 100 THEN 30
  ELSE IF totalMentions >= 50 THEN 26
  ELSE IF totalMentions >= 25 THEN 22
  ELSE IF totalMentions >= 15 THEN 18
  ELSE IF totalMentions >= 10 THEN 14
  ELSE IF totalMentions >= 5 THEN 10
  ELSE IF totalMentions >= 1 THEN 6
  ELSE 0

\* frustrationPercentage = (frustratedUsers / totalMentions) * 100 against the
\* tier boundaries; the quotient of two counts times 100 falls on the same
\* side of each boundary in double arithmetic as in exact arithmetic
FrustrationScore(frustratedUsers, totalMentions) ==
  LET AtLeast(p) == frustratedUsers * 100 >= p * totalMentions
  IN  IF AtLeast(70) THEN 35
      ELSE IF AtLeast(50) THEN 28
      ELSE IF AtLeast(35) THEN 22
      ELSE IF AtLeast(25) THEN 16
      ELSE IF AtLeast(15) THEN 12
      ELSE IF AtLeast(10) THEN 8
      ELSE 4

\* the keywords of the list a quote contains: severityMentions++ for each
KeywordHits(q) == Cardinality({k \in highSeverityKeywords : Includes(q.quote, k)})

\* what each such keyword adds to severityScore
HitBonus(q) ==
  (IF Includes(q.quote, DollarAmount) THEN 5 ELSE 0)
  + (IF Includes(q.quote, "thousand") \/ Includes(q.quote, "k ") THEN 3 ELSE 0)
  + (IF Includes(q.quote, "hours") \/ Includes(q.quote, "days") THEN 2 ELSE 0)

SeverityScore(topQuotes) ==
  LET severityMentions == SumSeq([i \in 1..Len(topQuotes) |->
                                    topQuotes[i].n * KeywordHits(topQuotes[i].q)])
      bonuses == SumSeq([i \in 1..Len(topQuotes) |->
                           topQuotes[i].n * KeywordHits(topQuotes[i].q) * HitBonus(topQuotes[i].q)])
  IN  Min2(bonuses + severityMentions * 2, 25)

\* Math.min(avgUpvotes * 0.5, 10)
EngagementScore(engagementLevel) ==
  IF engagementLevel.n >= 20 * engagementLevel.d THEN Rat(10, 1)
  ELSE Rat(engagementLevel.n, 2 * engagementLevel.d)

calculateMarketDemandScore(reddit) ==
  IF reddit.realData = NoRealData \/ reddit.realData.totalMentions = 0
    THEN [score |-> 15,
          details |-> [mentionCount |-> 0, frustrationLevel |-> 0,
                       severityScore |-> 0, engagementScore |-> Rat(0, 1)]]
  ELSE
    LET rd == reddit.realData
        mentionScore == MentionScore(rd.totalMentions)
        frustrationScore == FrustrationScore(rd.frustratedUsers, rd.totalMentions)
        severityScore == SeverityScore(rd.topQuotes)
        engagementScore == EngagementScore(reddit.engagementLevel)
        totalScore == MathRound(Rat((mentionScore + frustrationScore + severityScore)
                                      * engagementScore.d + engagementScore.n,
                                    engagementScore.d))
    IN  [score |-> Min2(totalScore, 100),
         details |-> [mentionCount |-> mentionScore, frustrationLevel |-> frustrationScore,
                      severityScore |-> severityScore, engagementScore |-> engagementScore]]

\* ------------------------------------------------------- competition
MentionsCompetitor(q) == \E k \in competitorKeywords : Includes(q.quote, k)

IsComplaint(q) ==
  /\ q.sentiment = "frustrated"
  /\ Includes(q.quote, "current") \/ Includes(q.quote, "existing") \/ Includes(q.quote, "using")

IsGap(q) ==
  \/ Includes(q.quote, "wish there was")
  \/ Includes(q.quote, "need something")
  \/ Includes(q.quote, "looking for")
  \/ Includes(q.quote, "anyone know")

\* a competitor tier whose 60% boundary is exclusive
CompetitorScore_Exclusive(competitorMentions, totalMentions) ==
  LET AtMost(p) == totalMentions = 0 \/ competitorMentions * 100 <= p * totalMentions
      Under(p) == totalMentions = 0 \/ competitorMentions * 100 < p * totalMentions
  IN  IF AtMost(3) THEN 40
      ELSE IF AtMost(8) THEN 34
      ELSE IF AtMost(15) THEN 28
      ELSE IF AtMost(25) THEN 22
      ELSE IF AtMost(40) THEN 16
      ELSE IF Under(60) THEN 10
      ELSE 5

\* competitorPercentage = (competitorMentions / totalMentions) * 100, or 0
CompetitorScore(competitorMentions, totalMentions) ==
  LET AtMost(p) == totalMentions = 0 \/ competitorMentions * 100 <= p * totalMentions
  IN  IF AtMost(3) THEN 40
      ELSE IF AtMost(8) THEN 34
      ELSE IF AtMost(15) THEN 28
      ELSE IF AtMost(25) THEN 22
      ELSE IF AtMost(40) THEN 16
      ELSE IF AtMost(60) THEN 10
      ELSE 5

ComplaintScore(userComplaints) ==
  IF userComplaints >= 10 THEN 35
  ELSE IF userComplaints >= 7 THEN 30
  ELSE IF userComplaints >= 5 THEN 25
  ELSE IF userComplaints >= 3 THEN 20
  ELSE IF userComplaints >= 1 THEN 15
  ELSE 8

GapScore(opportunityGaps) ==
  IF opportunityGaps >= 8 THEN 25
  ELSE IF opportunityGaps >= 5 THEN 20
  ELSE IF opportunityGaps >= 3 THEN 15
  ELSE IF opportunityGaps >= 1 THEN 10
  ELSE 5

calculateCompetitionScore(reddit) ==
  LET topQuotes == IF reddit.realData = NoRealData THEN <<>>
                   ELSE reddit.realData.topQuotes
      totalMentions == IF reddit.realData = NoRealData THEN 0
                       ELSE reddit.realData.totalMentions
      competitorMentions == CountOf(topQuotes, MentionsCompetitor)
      userComplaints == CountOf(topQuotes, IsComplaint)
      opportunityGaps == CountOf(topQuotes, IsGap)
      totalScore == CompetitorScore(competitorMentions, totalMentions)
                    + ComplaintScore(userComplaints) + GapScore(opportunityGaps)
  IN  [score |-> Min2(totalScore, 100),
       details |-> [competitorMentions |-> competitorMentions,
                    userComplaints |-> userComplaints,
                    opportunityGaps |-> opportunityGaps]]

\* ------------------------------------------------------- overall
calculateDataQuality(reddit) ==
  IF reddit.realData = NoRealData \/ reddit.realData.totalMentions <= 0 THEN 10
  ELSE
    LET rd == reddit.realData
        quotes == CountOf(rd.topQuotes, AnyQuote)
        avg == reddit.engagementLevel
        size == IF rd.totalMentions >= 100 THEN 30
                ELSE IF rd.totalMentions >= 50 THEN 25
                ELSE IF rd.totalMentions >= 25 THEN 20
                ELSE IF rd.totalMentions >= 15 THEN 15
                ELSE IF rd.totalMentions >= 10 THEN 10
                ELSE 5
        diversity == IF quotes >= 15 THEN 15
                     ELSE IF quotes >= 10 THEN 12
                     ELSE IF quotes >= 5 THEN 8
                     ELSE 3
        sentiment == IF rd.frustratedUsers > 0 THEN 10 ELSE 0
        engagement == IF avg.n >= 15 * avg.d THEN 15
                      ELSE IF avg.n >= 8 * avg.d THEN 10
                      ELSE IF avg.n >= 3 * avg.d THEN 5
                      ELSE 0
    IN  Min2(30 + size + diversity + sentiment + engagement, 100)

\* a weighting that is clamped to 0..100
OverallScore_Clamped(marketDemandScore, competitionScore) ==
  Max2(0, Min2(100, MathRound(Rat(6 * marketDemandScore + 4 * competitionScore, 10))))

\* Math.round(marketDemand.score * 0.60 + competition.score * 0.40)
OverallScore(marketDemandScore, competitionScore) ==
  MathRound(Rat(6 * marketDemandScore + 4 * competitionScore, 10))

\* the grade calculateRealValidationScore gives
ScorerGrade(overallScore) ==
  IF overallScore >= 90 THEN "A"
  ELSE IF overallScore >= 80 THEN "B+"
  ELSE IF overallScore >= 70 THEN "B"
  ELSE IF overallScore >= 60 THEN "C"
  ELSE IF overallScore >= 50 THEN "D"
  ELSE "F"

calculateRealValidationScore(reddit) ==
  LET marketDemand == calculateMarketDemandScore(reddit)
      competition == calculateCompetitionScore(reddit)
      overallScore == OverallScore(marketDemand.score, competition.score)
  IN  [marketDemand |-> marketDemand,
       competition |-> competition,
       overall |-> [score |-> overallScore, grade |-> ScorerGrade(overallScore),
                    confidence |-> calculateDataQuality(reddit)]]

\* a grade table whose A boundary is exclusive
getGradeFromScore_Exclusive(score) ==
  IF score > 90 THEN "A"
  ELSE IF score >= 80 THEN "B+"
  ELSE IF score >= 70 THEN "B"
  ELSE IF score >= 60 THEN "C"
  ELSE IF score >= 50 THEN "D"
  ELSE "F"

getGradeFromScore(score) ==
  IF score >= 90 THEN "A"
  ELSE IF score >= 80 THEN "B+"
  ELSE IF score >= 70 THEN "B"
  ELSE IF score >= 60 THEN "C"
  ELSE IF score >= 50 THEN "D"
  ELSE "F"

\* the scores getGradeFromScore is called with
GradedScores == 0..100

\* ------------------------------------------------------- final status writes
\* the insight of a run: its quotes are plain, rd.frustratedUsers of them
\* frustrated and the others neutral, none with upvotes
RunInsight(rd) ==
  LET Some(g) == g.n > 0
  IN  BuildInsight(SelectSeq(<<Group(Quote(TextPlain, "frustrated", 0), rd.frustratedUsers),
                               Group(Quote(TextPlain, "neutral", 0),
                                     rd.totalMentions - rd.frustratedUsers)>>, Some))

\* a step 10 that publishes the market demand score as the overall score
FinalScore_DemandOnly(rd) ==
  LET realScores == calculateRealValidationScore(RunInsight(rd))
  IN  [overall |-> realScores.marketDemand.score,
       grade |-> realScores.overall.grade,
       marketDemand |-> realScores.marketDemand.score,
       competition |-> realScores.competition.score,
       confidence |-> realScores.overall.confidence,
       realData |-> [redditMentions |-> rd.totalMentions,
                     frustratedUsers |-> rd.frustratedUsers]]

\* what step 10 publishes: the scores of calculateRealValidationScore and the
\* counts of the insight
FinalScore(rd) ==
  LET realScores == calculateRealValidationScore(RunInsight(rd))
  IN  [overall |-> realScores.overall.score,
       grade |-> realScores.overall.grade,
       marketDemand |-> realScores.marketDemand.score,
       competition |-> realScores.competition.score,
       confidence |-> realScores.overall.confidence,
       realData |-> [redditMentions |-> rd.totalMentions,
                     frustratedUsers |-> rd.frustratedUsers]]

\* a COMPLETED write that leaves the score out
CompletedUpdate_NoScore(res, s) ==
  [status |-> "COMPLETED",
   completedAt |-> "t1",
   processingSteps |-> s,
   totalDataPoints |-> res.totalDataPoints]

\* the update object of the COMPLETED write of the task
CompletedUpdate(res, s) ==
  [status |-> "COMPLETED",
   finalScore |-> res.finalScore,
   completedAt |-> "t1",
   processingSteps |-> s,
   totalDataPoints |-> res.totalDataPoints]

\* a FAILED write that leaves the persisted step list as it was
FailedUpdate_NoSteps(res, s) ==
  [status |-> "FAILED",
   currentStep |-> "Pipeline execution failed",
   errorMessage |-> IF res.error = "" THEN "Unknown pipeline error" ELSE res.error]

FailedUpdate(res, s) ==
  [status |-> "FAILED",
   currentStep |-> "Pipeline execution failed",
   errorMessage |-> IF res.error = "" THEN "Unknown pipeline error" ELSE res.error,
   processingSteps |-> s]

CriticalUpdate(e) ==
  [status |-> "FAILED",
   currentStep |-> "Critical pipeline error",
   errorMessage |-> CriticalMessage(e)]

NoResult == [state |-> "none", error |-> "", finalScore |-> <<>>, totalDataPoints |-> 0]

NoStepResult == [success |-> FALSE, dataPoints |-> 0, wellFormed |-> TRUE]

NoRedditData == [fetched |-> FALSE, posts |-> 0, totalMentions |-> 0, frustratedUsers |-> 0]

\* ------------------------------------------------------------------- Init
\* the variables of a pipeline run before the trigger is called
RunUnused ==
  /\ trig = "idle"
  /\ refined = FALSE
  /\ record = NoFile
  /\ steps = InitialSteps
  /\ pc = "notStarted"
  /\ cur = 0
  /\ updArg = 0
  /\ err = NoError
  /\ result = NoResult
  /\ stepResult = NoStepResult
  /\ keywordData = FALSE
  /\ redditData = NoRedditData
  /\ genCalls = 0
  /\ discCalls = 0
  /\ invoked = [n \in StepNumbers |-> 0]
  /\ inFlight = {}
  /\ threwAt = 0
  /\ storeFaults = 0
  /\ snapshots = <<>>

\* no record-store call is modelled in detail
StoreUnused ==
  /\ filePath = 0
  /\ tmpPath = 0
  /\ inode = <<>>
  /\ proc = <<>>
  /\ lastSave = <<>>
  /\ written = {}

\* no cache call is modelled
CacheUnused ==
  /\ clock = 0
  /\ cacheFile = <<>>
  /\ cacheOut = <<>>

\* no scorer call is modelled
ScorerUnused ==
  /\ insight = <<>>
  /\ scores = <<>>
  /\ graded = <<>>

\* no provider call, no extraction and no discussion search is modelled
AuxUnused ==
  /\ genCall = <<>>
  /\ extraction = <<>>
  /\ search = <<>>

Init == RunUnused /\ StoreUnused /\ CacheUnused /\ ScorerUnused /\ AuxUnused

\* ------------------------------------------------------- trigger: POST
\* StartValidationSchema.parse rejects the body: 400, nothing is written
POST_Reject ==
  /\ trig = "idle"
  /\ trig' = "rejected400"
  /\ UNCHANGED <<refined, record, steps, pc, cur, updArg, err, result, stepResult,
                 dataVars, invoked, inFlight, threwAt, storeFaults, snapshots>>
  /\ UNCHANGED sideVars

\* the body is accepted and the initial record is saved
POST_Save ==
  /\ trig = "idle"
  /\ \E r \in BOOLEAN : refined' = r
  /\ record' = InitialRecord
  /\ snapshots' = Append(snapshots, Snapshot("initial", InitialRecord))
  /\ trig' = "saved"
  /\ UNCHANGED <<steps, pc, cur, updArg, err, result, stepResult,
                 dataVars, invoked, inFlight, threwAt, storeFaults>>
  /\ UNCHANGED sideVars

\* saveValidation throws: 500, no pipeline is started
POST_SaveThrow ==
  /\ trig = "idle"
  /\ trig' = "error500"
  /\ storeFaults' = storeFaults + 1
  /\ UNCHANGED <<refined, record, steps, pc, cur, updArg, err, result, stepResult,
                 dataVars, invoked, inFlight, threwAt, snapshots>>
  /\ UNCHANGED sideVars

\* runValidationPipelineAsync is called and not awaited; the pipeline object is
\* constructed and execute() begins; the handler answers 200
POST_StartAndReturn ==
  /\ trig = "saved"
  /\ trig' = "returned"
  /\ steps' = InitialSteps
  /\ cur' = 1
  /\ pc' = "executeStep"
  /\ UNCHANGED <<refined, record, updArg, err, result, stepResult,
                 dataVars, invoked, inFlight, threwAt, storeFaults, snapshots>>
  /\ UNCHANGED sideVars

\* ------------------------------------------------------- executeStep
\* executeStep(cur): mark the step processing
ExecuteStep ==
  /\ pc = "executeStep"
  /\ steps' = MarkStep(steps, cur, "processing", "")
  /\ updArg' = cur
  /\ pc' = "updProcessing"
  /\ UNCHANGED <<trig, refined, record, cur, err, result, stepResult,
                 dataVars, invoked, inFlight, threwAt, storeFaults, snapshots>>
  /\ UNCHANGED sideVars

\* ------------------------------------------------------- updateStepStatus
UpdatePcs == {"updProcessing", "updCompleted", "updFailedInner", "updFailedOuter"}

\* an orchestrator that runs the step again
NextStep_Retry(n) == n

\* the step execute() runs after step n
NextStep(n) == IF n = NumSteps THEN n ELSE n + 1

\* where execute() goes once step n is over
AfterStep(n) == IF n = NumSteps THEN "executeReturnOk" ELSE "executeStep"

\* where control goes when the updateStepStatus call at a site returns
AfterUpdate(site, n) ==
  CASE site = "updProcessing" -> "stepCall"
    [] site = "updCompleted" ->
         IF n \in InnerCompletionSteps THEN "stepReturn" ELSE AfterStep(n)
    [] site = "updFailedInner" -> "executeCatch"
    [] OTHER -> "executeReturnFail"

\* where control goes when the updateStepStatus call at a site throws
AfterUpdateThrow(site, n) ==
  CASE site = "updProcessing" -> "executeCatch"
    [] site = "updCompleted" ->
         IF n \in InnerCompletionSteps THEN "stepCatch" ELSE "executeCatch"
    [] site = "updFailedInner" -> "executeCatch"
    [] OTHER -> "routeCatch"

SiteName(site) ==
  CASE site = "updProcessing" -> "processing"
    [] site = "updCompleted" -> "completed"
    [] OTHER -> "failed"

AdvancesStep(site, n) == site = "updCompleted" /\ n \notin InnerCompletionSteps

\* the updateValidation of the call returns
UpdateStepStatusOk ==
  /\ pc \in UpdatePcs
  /\ CurrentStep(steps, updArg) # 0
  /\ record' = UpdateValidation(record, StepUpdate(steps, CurrentStep(steps, updArg)))
  /\ snapshots' = Append(snapshots, Snapshot(SiteName(pc), record'))
  /\ pc' = AfterUpdate(pc, cur)
  /\ cur' = IF AdvancesStep(pc, cur) THEN NextStep(cur) ELSE cur
  /\ UNCHANGED <<trig, refined, steps, updArg, err, result, stepResult,
                 dataVars, invoked, inFlight, threwAt, storeFaults>>
  /\ UNCHANGED sideVars

\* the updateValidation of the call throws
UpdateStepStatusThrow ==
  /\ pc \in UpdatePcs
  /\ CurrentStep(steps, updArg) # 0
  /\ \E e \in StoreErrors : err' = e
  /\ storeFaults' = storeFaults + 1
  /\ pc' = AfterUpdateThrow(pc, cur)
  /\ result' = IF pc = "updFailedOuter" THEN [result EXCEPT !.state = "raised"] ELSE result
  /\ UNCHANGED <<trig, refined, record, steps, cur, updArg, stepResult,
                 dataVars, invoked, inFlight, threwAt, snapshots>>
  /\ UNCHANGED sideVars

\* no current step: the call writes nothing
UpdateStepStatusNoWrite ==
  /\ pc \in UpdatePcs
  /\ CurrentStep(steps, updArg) = 0
  /\ pc' = AfterUpdate(pc, cur)
  /\ cur' = IF AdvancesStep(pc, cur) THEN NextStep(cur) ELSE cur
  /\ UNCHANGED <<trig, refined, record, steps, updArg, err, result, stepResult,
                 dataVars, invoked, inFlight, threwAt, storeFaults, snapshots>>
  /\ UNCHANGED sideVars

\* ------------------------------------------------------- step functions
\* executeStep calls stepFunction()
StepCall ==
  /\ pc = "stepCall"
  /\ invoked' = [invoked EXCEPT ![cur] = @ + 1]
  /\ inFlight' = inFlight \cup {cur}
  /\ pc' = "stepBody"
  /\ UNCHANGED <<trig, refined, record, steps, cur, updArg, err, result, stepResult,
                 dataVars, threwAt, storeFaults, snapshots>>
  /\ UNCHANGED sideVars

\* a step 1 that goes on without refined idea data
HasRefinedIdea_Always(r) == TRUE

\* step 1: if (this.refinedIdeaData)
HasRefinedIdea(r) == r

\* step 1 without refined idea data: throws, no collaborator is called
Step1_Precondition ==
  /\ pc = "stepBody" /\ cur = 1
  /\ ~HasRefinedIdea(refined)
  /\ err' = PreconditionError
  /\ pc' = "stepCatch"
  /\ UNCHANGED <<trig, refined, record, steps, cur, updArg, result, stepResult,
                 dataVars, invoked, inFlight, threwAt, storeFaults, snapshots>>
  /\ UNCHANGED sideVars

\* ================================================================ the extractor
\* parseAIResponse of ai/content-analyzer.ts and the parsing part of
\* analyzeStartupIdea, on provider texts.
\*
\* A text is a sequence of tokens: a code fence (three backticks, bare or tagged json), a raw
\* newline, words of prose, a brace, a member of an object ("key": value, with
\* the comma that follows it when there is one), a backslash-n pair outside
\* any string, and a fragment (a piece of a member cut in two).  A string
\* literal is the sequence of what stands between its quotes: words ("w1"),
\* raw control characters ("LF": newline, "CTL": another one), three backticks
\* ("FENCE"), the escape \n ("ESCLF"), the escape \b ("ESCBS"), a space ("SP").

MaxMembers == 2      \* members of the object in a provider text

NoValue == [type |-> "none", body |-> <<>>, items |-> <<>>, trailing |-> FALSE]

StringValue(body) == [type |-> "string", body |-> body, items |-> <<>>, trailing |-> FALSE]

NumberValue(digits) ==
  [type |-> "number", body |-> <<digits>>, items |-> <<>>, trailing |-> FALSE]

\* [item, item] or, with a trailing comma, [item, item,]
ArrayValue(items, trailing) ==
  [type |-> "array", body |-> <<>>, items |-> items, trailing |-> trailing]

Tok(k) == [k |-> k, key |-> "", val |-> NoValue, comma |-> FALSE]

FencePlain == Tok("fence")

FenceJson == Tok("fence-json")

Newline == Tok("lf")

Prose == Tok("prose")

LeftBrace == Tok("{")

RightBrace == Tok("}")

EscapedNewline == Tok("esc-lf")

Fragment == Tok("fragment")

MemberTok(key, val, comma) == [k |-> "member", key |-> key, val |-> val, comma |-> comma]

IsFence(tok) == tok.k \in {"fence", "fence-json"}

\* ------------------------------------------------------- JSON.parse
RawControl == {"LF", "CTL"}

\* the characters a string literal denotes
Decode(body) ==
  [i \in 1..Len(body) |-> IF body[i] = "ESCLF" THEN "LF"
                          ELSE IF body[i] = "ESCBS" THEN "BS"
                          ELSE body[i]]

ValidBody(body) == \A i \in 1..Len(body) : body[i] \notin RawControl

ValidValue(val) ==
  CASE val.type = "string" -> ValidBody(val.body)
    [] val.type = "number" -> TRUE
    [] val.type = "array" ->
         /\ ~val.trailing
         /\ \A i \in 1..Len(val.items) : ValidBody(val.items[i])
    [] OTHER -> FALSE

\* the JavaScript value of a JSON value
JsValue(val) ==
  IF val.type = "array"
    THEN ArrayValue([i \in 1..Len(val.items) |-> Decode(val.items[i])], FALSE)
  ELSE IF val.type = "string" THEN StringValue(Decode(val.body))
  ELSE val

IsSpace(tok) == tok.k = "lf"

NotSpace(tok) == tok.k # "lf"

\* JSON.parse(text) for a text that should hold one object: whether it
\* parses, and the object (the last member of a name wins)
JsonParse(text) ==
  LET toks == SelectSeq(text, NotSpace)
      n == Len(toks)
      members == IF n >= 2 THEN SubSeq(toks, 2, n - 1) ELSE <<>>
      ok == /\ n >= 2
            /\ toks[1] = LeftBrace
            /\ toks[n] = RightBrace
            /\ \A i \in 1..Len(members) :
                 /\ members[i].k = "member"
                 /\ ValidValue(members[i].val)
                 /\ members[i].comma <=> (i < Len(members))
      keys == {members[i].key : i \in 1..Len(members)}
      Last(key) == CHOOSE i \in 1..Len(members) :
                     /\ members[i].key = key
                     /\ \A j \in 1..Len(members) : members[j].key = key => j <= i
  IN  [ok |-> ok,
       value |-> IF ok THEN [key \in keys |-> JsValue(members[Last(key)].val)] ELSE <<>>]

\* ------------------------------------------------------- parseAIResponse
\* text.trim()
RECURSIVE TrimText(_)
TrimText(text) ==
  IF text = <<>> THEN <<>>
  ELSE IF IsSpace(Head(text)) THEN TrimText(Tail(text))
  ELSE IF IsSpace(text[Len(text)]) THEN TrimText(SubSeq(text, 1, Len(text) - 1))
  ELSE text

\* replace(/X\n?/g, empty): every element that is an X goes, and with it the
\* newline that follows it
RECURSIVE RemoveWithNewline(_, _, _)
RemoveWithNewline(s, drop, newline) ==
  IF s = <<>> THEN <<>>
  ELSE IF Head(s) \in drop
    THEN IF Len(s) >= 2 /\ s[2] = newline
           THEN RemoveWithNewline(SubSeq(s, 3, Len(s)), drop, newline)
           ELSE RemoveWithNewline(Tail(s), drop, newline)
  ELSE <<Head(s)>> \o RemoveWithNewline(Tail(s), drop, newline)

\* a value with f applied to each of its string literals
MapBodies(val, f(_)) ==
  [val EXCEPT !.body = IF val.type = "string" THEN f(@) ELSE @,
              !.items = [i \in 1..Len(@) |-> f(@[i])]]

MapValues(text, f(_)) ==
  [i \in 1..Len(text) |-> IF text[i].k = "member"
                            THEN [text[i] EXCEPT !.val = MapBodies(@, f)]
                            ELSE text[i]]

\* the two replace calls that drop the tagged and the bare fences, which also reaches the
\* backticks inside string literals
StripFences(text) ==
  LET InBody(body) == RemoveWithNewline(body, {"FENCE"}, "LF")
      tagged == RemoveWithNewline(text, {FenceJson}, Newline)
      plain == RemoveWithNewline(tagged, {FencePlain}, Newline)
  IN  MapValues(plain, InBody)

FirstIndex(text, tok) ==
  IF \E i \in 1..Len(text) : text[i] = tok
    THEN CHOOSE i \in 1..Len(text) : text[i] = tok /\ \A j \in 1..(i - 1) : text[j] # tok
    ELSE 0

LastIndex(text, tok) ==
  IF \E i \in 1..Len(text) : text[i] = tok
    THEN CHOOSE i \in 1..Len(text) : text[i] = tok /\ \A j \in (i + 1)..Len(text) : text[j] # tok
    ELSE 0

\* cleanText.match(/\{[\s\S]*\}/): from the first { to the last } after it
JsonMatch(text) ==
  LET first == FirstIndex(text, LeftBrace)
      last == LastIndex(text, RightBrace)
  IN  IF first # 0 /\ last > first THEN SubSeq(text, first, last) ELSE text

\* sanitizeJSONString: raw newlines inside string literals are escaped; then
\* every control character left anywhere in the text is escaped (newline) or
\* removed (the others)
sanitizeJSONString(text) ==
  LET InBody(body) ==
        LET escaped == [i \in 1..Len(body) |-> IF body[i] = "LF" THEN "ESCLF" ELSE body[i]]
            Kept(c) == c # "CTL"
        IN  SelectSeq(escaped, Kept)
      Outside(tok) == IF tok = Newline THEN EscapedNewline ELSE tok
  IN  MapValues([i \in 1..Len(text) |-> Outside(text[i])], InBody)

\* strategy 2: a backslash is put before every quote that has none, those
\* around the names and the string literals included
FixQuotes(text) ==
  [i \in 1..Len(text) |-> IF text[i].k = "member" THEN Fragment ELSE text[i]]

\* strategy 3: .replace(/\b/g, '\\b') puts a backslash and a b at every word
\* boundary: inside a string literal that is the escape \b, around a number
\* or a word outside one it is no JSON
InsertBackspaces(text) ==
  LET InBody(body) == <<"ESCBS">> \o body \o <<"ESCBS">>
      Outside(tok) ==
        IF tok.k = "member" /\ tok.val.type = "number" THEN Fragment
        ELSE IF tok.k = "member" THEN [tok EXCEPT !.key = <<"ESCBS", @, "ESCBS">>]
        ELSE tok
  IN  MapValues([i \in 1..Len(text) |-> Outside(text[i])], InBody)

\* the first member of the text with that name and a value of that type, or 0:
\* what "name"\s*:\s* followed by the opening of such a value matches
FindMember(text, key, type) ==
  LET Hit(i) == text[i].k = "member" /\ text[i].key = key /\ text[i].val.type = type
  IN  IF \E i \in 1..Len(text) : Hit(i)
        THEN CHOOSE i \in 1..Len(text) : Hit(i) /\ \A j \in 1..(i - 1) : ~Hit(j)
        ELSE 0

NonEmpty(body) == body # <<>>

\* parseStringArray: JSON.parse of the bracketed list or, when that raises,
\* what stands between each pair of quotes, as written
parseStringArray(val) ==
  IF ValidValue(val) THEN JsValue(val)
  ELSE ArrayValue(SelectSeq(val.items, NonEmpty), FALSE)

Phrase(words) == ArrayValue(<<<<words>>>>, FALSE)

\* parseQuotesArray: a quote object stands in a text as the string of its
\* quote; each is parsed or, when that raises, extracted as written, and the
\* ones without a quote are dropped
parseQuotesArray(val) ==
  ArrayValue(SelectSeq(IF ValidValue(val) THEN JsValue(val).items ELSE val.items, NonEmpty),
             FALSE)

\* reconstructJSON: each field is looked up on its own, and has its default
reconstructJSON(text) ==
  LET Array(key, default) ==
        LET i == FindMember(text, key, "array")
        IN  IF i = 0 THEN default ELSE parseStringArray(text[i].val)
      Number(key, default) ==
        LET i == FindMember(text, key, "number")
        IN  IF i = 0 THEN NumberValue(default) ELSE text[i].val
      Quotes == LET i == FindMember(text, "relevantQuotes", "array")
                IN  IF i = 0 THEN ArrayValue(<<>>, FALSE) ELSE parseQuotesArray(text[i].val)
  IN  [relevantQuotes |-> Quotes,
       overallSentiment |-> Number("overallSentiment", "5"),
       painPoints |-> Array("painPoints", Phrase("Unable to extract pain points from AI response")),
       keyInsights |-> Array("keyInsights", Phrase("AI response parsing failed")),
       frustrationLevel |-> Number("frustrationLevel", "0.5"),
       totalRelevantPosts |-> Number("totalRelevantPosts", "0"),
       analysisConfidence |-> Number("analysisConfidence", "0.3")]

\* what an extractor returns: the strategy that gave the record (0: none, the
\* call raised) and the record
Extracted(strategy, value) == [strategy |-> strategy, value |-> value]

\* the text the strategies of parseAIResponse work on
CleanText(aiText) == sanitizeJSONString(JsonMatch(StripFences(TrimText(aiText))))

parseAIResponse(aiText) ==
  LET cleanText == CleanText(aiText)
      direct == JsonParse(cleanText)
      fixedQuotes == JsonParse(FixQuotes(cleanText))
      cleaned == JsonParse(InsertBackspaces(cleanText))
  IN  IF direct.ok THEN Extracted(1, direct.value)
      ELSE IF fixedQuotes.ok THEN Extracted(2, fixedQuotes.value)
      ELSE IF cleaned.ok THEN Extracted(3, cleaned.value)
      ELSE Extracted(4, reconstructJSON(cleanText))

\* ------------------------------------------------------- analyzeStartupIdea
\* how many times three backticks occur in a token
FenceCount(tok) ==
  LET In(body) == Len(SelectSeq(body, LAMBDA c : c = "FENCE"))
  IN  IF IsFence(tok) THEN 1
      ELSE IF tok.k # "member" THEN 0
      ELSE In(tok.val.body)
           + Cardinality(UNION {{<<i, j>> : j \in {j \in 1..Len(tok.val.items[i]) :
                                                    tok.val.items[i][j] = "FENCE"}} :
                                i \in 1..Len(tok.val.items)})

\* cleanText.substring(startIndex, endIndex).trim() for a start behind the
\* first marker, in token f, and an end at the last three backticks, in token
\* l: a member that is cut leaves a fragment
CutBetween(text, f, l) ==
  LET head == IF text[f].k = "member" THEN <<Fragment>> ELSE <<>>
      tail == IF l # f /\ text[l].k = "member" THEN <<Fragment>> ELSE <<>>
  IN  TrimText(head \o SubSeq(text, f + 1, l - 1) \o tail)

\* the removal of the markdown block: behind the first tagged fence, or else the
\* first fence, up to the last fence, unless that marker opens the text
RemoveMarkdownBlock(text) ==
  LET Fenced(i) == FenceCount(text[i]) > 0
      first == IF \E i \in 1..Len(text) : text[i] = FenceJson
                 THEN FirstIndex(text, FenceJson)
                 ELSE CHOOSE i \in 1..Len(text) : Fenced(i) /\ \A j \in 1..(i - 1) : ~Fenced(j)
      last == CHOOSE i \in 1..Len(text) : Fenced(i) /\ \A j \in (i + 1)..Len(text) : ~Fenced(j)
  IN  IF ~\E i \in 1..Len(text) : Fenced(i) THEN text
      ELSE IF first = 1 /\ IsFence(text[1]) THEN text
      ELSE IF last > first \/ FenceCount(text[first]) >= 2 THEN CutBetween(text, first, last)
      ELSE text

\* attempt 2: control characters become spaces and the commas before } or ]
\* are removed
MinimalClean(text) ==
  LET InBody(body) == [i \in 1..Len(body) |-> IF body[i] \in RawControl THEN "SP" ELSE body[i]]
      spaced == SelectSeq(text, NotSpace)
      BeforeBrace(i) == i < Len(spaced) /\ spaced[i + 1] = RightBrace
      NoTrailing(tok, i) ==
        IF tok.k = "member"
          THEN [tok EXCEPT !.comma = @ /\ ~BeforeBrace(i), !.val.trailing = FALSE]
          ELSE tok
  IN  MapValues([i \in 1..Len(spaced) |-> NoTrailing(spaced[i], i)], InBody)

\* attempt 3: extractJsonValue and extractJsonArray, each field on its own
ManualFields(text) ==
  LET String(key, default) ==
        LET i == FindMember(text, key, "string")
        IN  IF i = 0 \/ text[i].val.body = <<>> THEN StringValue(<<default>>)
            ELSE StringValue(text[i].val.body)
      Array(key) ==
        LET i == FindMember(text, key, "array")
        IN  IF i = 0 THEN ArrayValue(<<>>, FALSE) ELSE ArrayValue(text[i].val.items, FALSE)
  IN  [recommendation |-> String("recommendation", "PASS"),
       reasoning |-> String("reasoning", "AI parsing failed - analysis incomplete"),
       nextSteps |-> Array("nextSteps"),
       confidence |-> NumberValue("30")]

\* the record analyzeStartupIdea returns for a parsed analysis.  The texts
\* modelled hold no risks, opportunities or marketSize, which take their
\* defaults and are left out.
FormatAnalysis(analysis) ==
  LET Has(key, type) == key \in DOMAIN analysis /\ analysis[key].type = type
      String(key, default) ==
        IF Has(key, "string") /\ analysis[key].body # <<>> THEN analysis[key]
        ELSE StringValue(<<default>>)
  IN  [recommendation |-> String("recommendation", "PASS"),
       reasoning |-> String("reasoning", "Unable to determine recommendation."),
       nextSteps |-> IF Has("nextSteps", "array") THEN analysis.nextSteps
                     ELSE ArrayValue(<<>>, FALSE),
       confidence |-> IF Has("confidence", "number") THEN analysis.confidence
                      ELSE NumberValue("50")]

analyzeStartupIdea(text) ==
  LET cleanText == JsonMatch(RemoveMarkdownBlock(TrimText(text)))
      direct == JsonParse(cleanText)
      minimal == JsonParse(TrimText(MinimalClean(cleanText)))
  IN  IF direct.ok THEN Extracted(1, FormatAnalysis(direct.value))
      ELSE IF minimal.ok THEN Extracted(2, FormatAnalysis(minimal.value))
      ELSE Extracted(3, FormatAnalysis(ManualFields(cleanText)))

\* ------------------------------------------------------- provider texts
\* what can stand between the quotes of a string literal of a provider text
Bodies ==
  {<<"w1">>,
   <<"w1", "LF", "w2">>,
   <<"w1", "CTL", "w2">>,
   <<"w1", "ESCLF", "w2">>,
   <<"FENCE", "w1", "FENCE">>}

Field(key, val) == [key |-> key, val |-> val]

\* members of the analysis analyzeRedditContent asks for
AnalysisMembers ==
  {Field("overallSentiment", NumberValue("7"))}
  \cup {Field("painPoints", ArrayValue(<<b, <<"w2">>>>, t)) : b \in Bodies, t \in BOOLEAN}
  \cup {Field("keyInsights", ArrayValue(<<b>>, FALSE)) : b \in Bodies}

\* members of the analysis analyzeStartupIdea asks for
IdeaMembers ==
  {Field("recommendation", StringValue(<<"GO">>))}
  \cup {Field("reasoning", StringValue(b)) : b \in Bodies}
  \cup {Field("nextSteps", ArrayValue(<<b>>, t)) : b \in Bodies, t \in BOOLEAN}

Schemas == {"analysis", "idea"}

MembersOf(schema) == IF schema = "analysis" THEN AnalysisMembers ELSE IdeaMembers

\* the member lists of an object: each name once
MemberLists(schema) ==
  {ms \in UNION {[1..k -> MembersOf(schema)] : k \in 1..MaxMembers} :
     \A i, j \in 1..Len(ms) : ms[i].key = ms[j].key => i = j}

\* the text of an object: on one line or a line per member, with or without a
\* comma behind the last member
ObjectText(members, pretty, trailing) ==
  LET n == Len(members)
      Line(i) == MemberTok(members[i].key, members[i].val, i < n \/ trailing)
  IN  IF pretty
        THEN [p \in 1..(2 * n + 3) |->
                IF p = 1 THEN LeftBrace
                ELSE IF p = 2 * n + 3 THEN RightBrace
                ELSE IF p % 2 = 0 THEN Newline
                ELSE Line((p - 1) \div 2)]
        ELSE <<LeftBrace>> \o [i \in 1..n |-> Line(i)] \o <<RightBrace>>

Wrappings == {"none", "json", "plain", "prose"}

\* the object text as the provider wraps it
Wrapped(text, wrap) ==
  CASE wrap = "none" -> text
    [] wrap = "json" -> <<FenceJson, Newline>> \o text \o <<Newline, FencePlain>>
    [] wrap = "plain" -> <<FencePlain, Newline>> \o text \o <<Newline, FencePlain>>
    [] wrap = "prose" -> <<Prose, Newline, FenceJson, Newline>> \o text \o <<Newline, FencePlain>>

NoExtracted == Extracted(-1, <<>>)

Received(schema, members, pretty, trailing, wrap, text) ==
  [schema |-> schema, members |-> members, pretty |-> pretty, trailing |-> trailing,
   wrap |-> wrap, text |-> text, out |-> NoExtracted]

\* ------------------------------------------------------- answers in a run
\* an answer of the provider in a run: an object on one line, or prose when
\* there are no members
Answer(schema, members, trailing, wrap) ==
  Received(schema, members, FALSE, trailing, wrap,
           IF members = <<>> THEN <<Prose>>
           ELSE Wrapped(ObjectText(members, FALSE, trailing), wrap))

Words == ArrayValue(<<<<"w1">>>>, FALSE)

\* step 1: the answers to the keyword prompt: complete, with a trailing comma,
\* with searchKeywords only, and without any JSON
KeywordAnswers ==
  LET complete == <<Field("recommendedSubreddits", Words), Field("searchKeywords", Words),
                    Field("focusQueries", Words)>>
  IN  {Answer("keywords", complete, FALSE, "json"),
       Answer("keywords", complete, TRUE, "none"),
       Answer("keywords", <<Field("searchKeywords", Words)>>, FALSE, "none"),
       Answer("keywords", <<>>, FALSE, "none")}

\* step 1: the parsing of the keyword answer
ParseKeywords(aiText) == JsonParse(JsonMatch(TrimText(StripFences(aiText))))

\* step 1: recommendedSubreddits, searchKeywords and focusQueries are there
KeywordsComplete(value) ==
  {"recommendedSubreddits", "searchKeywords", "focusQueries"} \subseteq DOMAIN value

\* step 2: the answers to the content analysis prompt: complete with m quotes,
\* without relevantQuotes, and without any JSON
AnalysisAnswers ==
  LET Quotes(m) == ArrayValue([i \in 1..m |-> <<"w1">>], FALSE)
      rest == <<Field("overallSentiment", NumberValue("7")), Field("painPoints", Words)>>
  IN  {Answer("analysis", <<Field("relevantQuotes", Quotes(m))>> \o rest, FALSE, "json") :
         m \in 0..MaxMentions}
      \cup {Answer("analysis", rest, FALSE, "json"), Answer("analysis", <<>>, FALSE, "none")}

\* analyzeRedditContent: the validation of the parsed analysis
ValidAnalysis_Strict(out) == out.strategy = 1 /\ "relevantQuotes" \in DOMAIN out.value

ValidAnalysis(out) ==
  LET Is(key, type) == key \in DOMAIN out.value /\ out.value[key].type = type
  IN  /\ Is("relevantQuotes", "array")
      /\ Is("overallSentiment", "number")
      /\ Is("painPoints", "array")

\* step 1: the provider answers with complete keyword data
Raised == Extracted(0, <<>>)

\* the other variables that a provider answer in a run leaves alone
AnswerFrame == UNCHANGED <<storeVars, cacheVars, scoreVars, genCall, search>>

Step1_KeywordsOk ==
  /\ pc = "stepBody" /\ cur = 1
  /\ HasRefinedIdea(refined)
  /\ genCalls' = genCalls + 1
  /\ \E a \in KeywordAnswers :
       LET parsed == ParseKeywords(a.text)
       IN  /\ parsed.ok
           /\ KeywordsComplete(parsed.value)
           /\ extraction' = [a EXCEPT !.out = Extracted(1, parsed.value)]
  /\ keywordData' = TRUE
  /\ stepResult' = [success |-> TRUE, dataPoints |-> 1, wellFormed |-> TRUE]
  /\ pc' = "stepReturn"
  /\ UNCHANGED <<trig, refined, record, steps, cur, updArg, err, result,
                 redditData, discCalls, invoked, inFlight, threwAt, storeFaults, snapshots>>
  /\ AnswerFrame

\* step 1: the provider throws, or its text does not parse, or it is incomplete
Step1_KeywordsThrow ==
  /\ pc = "stepBody" /\ cur = 1
  /\ HasRefinedIdea(refined)
  /\ genCalls' = genCalls + 1
  /\ \/ /\ \E e \in ProviderErrors : err' = e
        /\ extraction' = extraction
     \/ \E a \in KeywordAnswers :
          LET parsed == ParseKeywords(a.text)
          IN  /\ ~(parsed.ok /\ KeywordsComplete(parsed.value))
              /\ err' = IF parsed.ok THEN KeywordIncompleteError ELSE KeywordParseError
              /\ extraction' = [a EXCEPT !.out = Raised]
  /\ pc' = "stepCatch"
  /\ UNCHANGED <<trig, refined, record, steps, cur, updArg, result, stepResult,
                 keywordData, redditData, discCalls, invoked, inFlight, threwAt,
                 storeFaults, snapshots>>
  /\ AnswerFrame

\* what searchRedditDiscussions returns for m relevant quotes, f frustrated
Insight(posts, m, f) ==
  [fetched |-> TRUE, posts |-> posts, totalMentions |-> m, frustratedUsers |-> f]

\* a step 2 that reports failure when nothing was found
Step2Success_NeedsData(mentions) == mentions > 0

\* step 2: success of the step result, whatever the number of mentions
Step2Success(mentions) == TRUE

\* step 2: the probes of searchRedditDiscussions; with no post collected
\* analyzeRedditContent answers without calling the provider
Step2_Search ==
  /\ pc = "stepBody" /\ cur = 2
  /\ IF ~keywordData
       THEN /\ err' = KeywordDataRequiredError
            /\ pc' = "stepCatch"
            /\ UNCHANGED <<redditData, discCalls, stepResult>>
       ELSE \E probes \in 1..MaxProbes, posts \in 0..MaxPosts :
              /\ discCalls' = discCalls + probes
              /\ IF posts = 0
                   THEN /\ redditData' = Insight(0, 0, 0)
                        /\ stepResult' = [success |-> Step2Success(0), dataPoints |-> 0,
                                          wellFormed |-> TRUE]
                        /\ pc' = "stepReturn"
                   ELSE /\ redditData' = [NoRedditData EXCEPT !.posts = posts]
                        /\ stepResult' = stepResult
                        /\ pc' = "step2Analyze"
              /\ err' = err
  /\ UNCHANGED <<trig, refined, record, steps, cur, updArg, result,
                 keywordData, genCalls, invoked, inFlight, threwAt, storeFaults, snapshots>>
  /\ UNCHANGED sideVars

\* step 2: the content analysis of the collected posts returns
Step2_AnalyzeOk ==
  /\ pc = "step2Analyze"
  /\ genCalls' = genCalls + 1
  /\ \E a \in AnalysisAnswers :
       LET out == parseAIResponse(a.text)
           m == Len(out.value.relevantQuotes.items)
       IN  /\ ValidAnalysis(out)
           /\ extraction' = [a EXCEPT !.out = out]
           /\ \E f \in 0..m : redditData' = Insight(redditData.posts, m, f)
           /\ stepResult' = [success |-> Step2Success(m), dataPoints |-> m,
                             wellFormed |-> TRUE]
  /\ pc' = "stepReturn"
  /\ UNCHANGED <<trig, refined, record, steps, cur, updArg, err, result,
                 keywordData, discCalls, invoked, inFlight, threwAt, storeFaults, snapshots>>
  /\ AnswerFrame

\* step 2: the content analysis throws: the provider call does, or the
\* validation of the parsed analysis
Step2_AnalyzeThrow ==
  /\ pc = "step2Analyze"
  /\ genCalls' = genCalls + 1
  /\ \/ extraction' = extraction
     \/ \E a \in AnalysisAnswers :
          /\ ~ValidAnalysis(parseAIResponse(a.text))
          /\ extraction' = [a EXCEPT !.out = Raised]
  /\ err' = ContentAnalysisError
  /\ pc' = "stepCatch"
  /\ UNCHANGED <<trig, refined, record, steps, cur, updArg, result, stepResult,
                 keywordData, redditData, discCalls, invoked, inFlight, threwAt,
                 storeFaults, snapshots>>
  /\ AnswerFrame

\* step 3: no collaborator; the step function marks the step completed itself
Step3_Sentiment ==
  /\ pc = "stepBody" /\ cur = 3
  /\ steps' = MarkStep(steps, 3, "completed", CompletionDescription(3))
  /\ updArg' = 3
  /\ stepResult' = [success |-> TRUE, dataPoints |-> redditData.totalMentions,
                    wellFormed |-> TRUE]
  /\ pc' = "updCompleted"
  /\ UNCHANGED <<trig, refined, record, cur, err, result,
                 dataVars, invoked, inFlight, threwAt, storeFaults, snapshots>>
  /\ UNCHANGED sideVars

\* steps 4..8: the research collaborator returns
Research_Ok ==
  /\ pc = "stepBody" /\ cur \in ResearchSteps
  /\ IF ~refined
       THEN /\ err' = RefinedRequiredError
            /\ pc' = "stepCatch"
            /\ UNCHANGED <<genCalls, stepResult>>
       ELSE /\ genCalls' = genCalls + 1
            /\ \E wf \in BOOLEAN :
                 stepResult' = [success |-> TRUE, dataPoints |-> 1,
                                wellFormed |-> (wf \/ cur \notin UncheckedDescriptionSteps)]
            /\ pc' = "stepReturn"
            /\ err' = err
  /\ UNCHANGED <<trig, refined, record, steps, cur, updArg, result,
                 keywordData, redditData, discCalls, invoked, inFlight, threwAt,
                 storeFaults, snapshots>>
  /\ UNCHANGED sideVars

\* steps 4..8: the research collaborator throws
Research_Throw ==
  /\ pc = "stepBody" /\ cur \in ResearchSteps
  /\ refined
  /\ genCalls' = genCalls + 1
  /\ \E e \in ProviderErrors \cup {InvalidResponseError} : err' = e
  /\ pc' = "stepCatch"
  /\ UNCHANGED <<trig, refined, record, steps, cur, updArg, result, stepResult,
                 keywordData, redditData, discCalls, invoked, inFlight, threwAt,
                 storeFaults, snapshots>>
  /\ UNCHANGED sideVars

\* step 9: the narrative analysis returns; the step function marks the step
Step9_AnalysisOk ==
  /\ pc = "stepBody" /\ cur = 9
  /\ genCalls' = genCalls + 1
  /\ steps' = MarkStep(steps, 9, "completed", CompletionDescription(9))
  /\ updArg' = 9
  /\ stepResult' = [success |-> TRUE, dataPoints |-> 1, wellFormed |-> TRUE]
  /\ pc' = "updCompleted"
  /\ UNCHANGED <<trig, refined, record, cur, err, result,
                 keywordData, redditData, discCalls, invoked, inFlight, threwAt,
                 storeFaults, snapshots>>
  /\ UNCHANGED sideVars

\* step 9: the narrative analysis throws
Step9_AnalysisThrow ==
  /\ pc = "stepBody" /\ cur = 9
  /\ genCalls' = genCalls + 1
  /\ err' = StartupAnalysisError
  /\ pc' = "stepCatch"
  /\ UNCHANGED <<trig, refined, record, steps, cur, updArg, result, stepResult,
                 keywordData, redditData, discCalls, invoked, inFlight, threwAt,
                 storeFaults, snapshots>>
  /\ UNCHANGED sideVars

\* step 10: scores are computed; the step function marks the step completed
Step10_Score ==
  /\ pc = "stepBody" /\ cur = 10
  /\ steps' = MarkStep(steps, 10, "completed", CompletionDescription(10))
  /\ updArg' = 10
  /\ stepResult' = [success |-> TRUE, dataPoints |-> redditData.totalMentions,
                    wellFormed |-> TRUE]
  /\ pc' = "updCompleted"
  /\ UNCHANGED <<trig, refined, record, cur, err, result,
                 dataVars, invoked, inFlight, threwAt, storeFaults, snapshots>>
  /\ UNCHANGED sideVars

\* an orchestrator that leaves the finished step processing
CompletionStatus_StaysProcessing(n, res) == "processing"

\* the status execute() gives step n once its step function has returned
CompletionStatus(n, res) ==
  IF n = 2 THEN (IF res.success THEN "completed" ELSE "failed") ELSE "completed"

\* the step function of a step that marked itself returns to execute()
StepReturn_Inner ==
  /\ pc = "stepReturn" /\ cur \in InnerCompletionSteps
  /\ inFlight' = inFlight \ {cur}
  /\ pc' = AfterStep(cur)
  /\ cur' = NextStep(cur)
  /\ UNCHANGED <<trig, refined, record, steps, updArg, err, result, stepResult,
                 dataVars, invoked, threwAt, storeFaults, snapshots>>
  /\ UNCHANGED sideVars

\* the step function returns and execute() marks the step completed
StepReturn_MarkCompleted ==
  /\ pc = "stepReturn" /\ cur \notin InnerCompletionSteps
  /\ stepResult.wellFormed
  /\ inFlight' = inFlight \ {cur}
  /\ steps' = MarkStep(steps, cur, CompletionStatus(cur, stepResult), CompletionDescription(cur))
  /\ updArg' = cur
  /\ pc' = "updCompleted"
  /\ UNCHANGED <<trig, refined, record, cur, err, result, stepResult,
                 dataVars, invoked, threwAt, storeFaults, snapshots>>
  /\ UNCHANGED sideVars

\* the step function returns and building the completion text throws
StepReturn_DescriptionThrows ==
  /\ pc = "stepReturn" /\ cur \notin InnerCompletionSteps
  /\ ~stepResult.wellFormed
  /\ inFlight' = inFlight \ {cur}
  /\ err' = DescriptionTypeError
  /\ pc' = "executeCatch"
  /\ UNCHANGED <<trig, refined, record, steps, cur, updArg, result, stepResult,
                 dataVars, invoked, threwAt, storeFaults, snapshots>>
  /\ UNCHANGED sideVars

\* executeStep, catch: mark the step failed, then rethrow
StepCatch ==
  /\ pc = "stepCatch"
  /\ inFlight' = inFlight \ {cur}
  /\ threwAt' = cur
  /\ steps' = MarkStep(steps, cur, "failed", StepFailedText(err))
  /\ updArg' = cur
  /\ pc' = "updFailedInner"
  /\ UNCHANGED <<trig, refined, record, cur, err, result, stepResult,
                 dataVars, invoked, storeFaults, snapshots>>
  /\ UNCHANGED sideVars

\* ------------------------------------------------------- execute, the ends
\* execute, catch: mark the processing step, if any, failed
ExecuteCatch ==
  /\ pc = "executeCatch"
  /\ IF FindProcessing(steps) # 0
       THEN /\ steps' = MarkStep(steps, FindProcessing(steps), "failed", UnknownErrorText(err))
            /\ updArg' = FindProcessing(steps)
            /\ pc' = "updFailedOuter"
       ELSE /\ pc' = "executeReturnFail"
            /\ UNCHANGED <<steps, updArg>>
  /\ UNCHANGED <<trig, refined, record, cur, err, result, stepResult,
                 dataVars, invoked, inFlight, threwAt, storeFaults, snapshots>>
  /\ UNCHANGED sideVars

\* execute, catch: return { success: false, error, steps }
ExecuteReturnFail ==
  /\ pc = "executeReturnFail"
  /\ result' = [NoResult EXCEPT !.state = "failure", !.error = CapturedMessage(err)]
  /\ pc' = "routeResult"
  /\ UNCHANGED <<trig, refined, record, steps, cur, updArg, err, stepResult,
                 dataVars, invoked, inFlight, threwAt, storeFaults, snapshots>>
  /\ UNCHANGED sideVars

\* execute: return { success: true, finalScore, ..., steps }
ExecuteReturnOk ==
  /\ pc = "executeReturnOk"
  /\ result' = [state |-> "success", error |-> "", finalScore |-> FinalScore(redditData),
                totalDataPoints |-> stepResult.dataPoints]
  /\ pc' = "routeResult"
  /\ UNCHANGED <<trig, refined, record, steps, cur, updArg, err, stepResult,
                 dataVars, invoked, inFlight, threwAt, storeFaults, snapshots>>
  /\ UNCHANGED sideVars

\* ------------------------------------------------------- background task
\* a task whose final write is followed by its catch block
AfterFinalWrite_IntoCatch == "routeCatch"

\* where the task is once a final status write has returned
AfterFinalWrite == "done"

\* result.success: the COMPLETED write returns
Route_WriteCompleted ==
  /\ pc = "routeResult" /\ result.state = "success"
  /\ record' = UpdateValidation(record, CompletedUpdate(result, steps))
  /\ snapshots' = Append(snapshots, Snapshot("final-completed", record'))
  /\ pc' = AfterFinalWrite
  /\ UNCHANGED <<trig, refined, steps, cur, updArg, err, result, stepResult,
                 dataVars, invoked, inFlight, threwAt, storeFaults>>
  /\ UNCHANGED sideVars

\* !result.success: the FAILED write returns
Route_WriteFailed ==
  /\ pc = "routeResult" /\ result.state = "failure"
  /\ record' = UpdateValidation(record, FailedUpdate(result, steps))
  /\ snapshots' = Append(snapshots, Snapshot("final-failed", record'))
  /\ pc' = AfterFinalWrite
  /\ UNCHANGED <<trig, refined, steps, cur, updArg, err, result, stepResult,
                 dataVars, invoked, inFlight, threwAt, storeFaults>>
  /\ UNCHANGED sideVars

\* the final status write throws: control goes to the catch of the task
Route_WriteThrow ==
  /\ pc = "routeResult"
  /\ \E e \in StoreErrors : err' = e
  /\ storeFaults' = storeFaults + 1
  /\ pc' = "routeCatch"
  /\ UNCHANGED <<trig, refined, record, steps, cur, updArg, result, stepResult,
                 dataVars, invoked, inFlight, threwAt, snapshots>>
  /\ UNCHANGED sideVars

\* catch of the task: the FAILED write returns
RouteCatch_Write ==
  /\ pc = "routeCatch"
  /\ record' = UpdateValidation(record, CriticalUpdate(err))
  /\ snapshots' = Append(snapshots, Snapshot("final-critical", record'))
  /\ pc' = AfterFinalWrite
  /\ UNCHANGED <<trig, refined, steps, cur, updArg, err, result, stepResult,
                 dataVars, invoked, inFlight, threwAt, storeFaults>>
  /\ UNCHANGED sideVars

\* catch of the task: the write throws, the promise of the task is rejected
\* and nobody handles it
RouteCatch_WriteThrow ==
  /\ pc = "routeCatch"
  /\ storeFaults' = storeFaults + 1
  /\ pc' = "unhandled"
  /\ UNCHANGED <<trig, refined, record, steps, cur, updArg, err, result, stepResult,
                 dataVars, invoked, inFlight, threwAt, snapshots>>
  /\ UNCHANGED sideVars

\* ------------------------------------------------------------------- Next
Next ==
  \/ POST_Reject
  \/ POST_Save
  \/ POST_SaveThrow
  \/ POST_StartAndReturn
  \/ ExecuteStep
  \/ UpdateStepStatusOk
  \/ UpdateStepStatusThrow
  \/ UpdateStepStatusNoWrite
  \/ StepCall
  \/ Step1_Precondition
  \/ Step1_KeywordsOk
  \/ Step1_KeywordsThrow
  \/ Step2_Search
  \/ Step2_AnalyzeOk
  \/ Step2_AnalyzeThrow
  \/ Step3_Sentiment
  \/ Research_Ok
  \/ Research_Throw
  \/ Step9_AnalysisOk
  \/ Step9_AnalysisThrow
  \/ Step10_Score
  \/ StepReturn_Inner
  \/ StepReturn_MarkCompleted
  \/ StepReturn_DescriptionThrows
  \/ StepCatch
  \/ ExecuteCatch
  \/ ExecuteReturnFail
  \/ ExecuteReturnOk
  \/ Route_WriteCompleted
  \/ Route_WriteFailed
  \/ Route_WriteThrow
  \/ RouteCatch_Write
  \/ RouteCatch_WriteThrow

Spec == Init /\ [][Next]_vars

\* ======================================================== the record store
\* saveValidation, loadValidation and updateValidation of storage/json.ts at
\* the level of the file system: the record file and its temporary file are
\* paths to inodes, fs.writeFile opens its target with truncation and writes
\* it in one or more chunks, fs.rename moves the inode of the temporary path
\* to the record path, fs.readFile reads the inode at the record path.  Three
\* processes issue one call each on the same id: two writers and one reader;
\* fs.readFile fails with ENOENT or not at all.

MaxChunks == 2       \* chunks in which one fs.writeFile writes its data
NumInodes == 4       \* inodes the two paths and the two writers can hold

\* w1 saves or updates (a trigger and its background task), w2 saves (a second
\* trigger for the same id)
Writers == {"w1", "w2"}

Updaters == {"w1"}

Procs == Writers \cup {"r"}

\* ------------------------------------------------------- JSON text
\* JavaScript values a field of a record can hold
JsString(s) == [type |-> "string", text |-> s]

JsNumber(n) == [type |-> "number", text |-> n]

JsUndefined == [type |-> "undefined", text |-> ""]

JsNull == [type |-> "null", text |-> "null"]

\* numbers that have no JSON text
NonFinite == {"NaN", "Infinity", "-Infinity"}

\* JSON.stringify of a value: a non-finite number is written as null
JsonValue(v) == IF v.type = "number" /\ v.text \in NonFinite THEN JsNull ELSE v

\* the order in which the keys of a record are written
FieldOrder == <<"id", "status", "progress", "errorMessage">>

\* JSON.stringify leaves out the properties whose value is undefined
EmittedFields(doc) ==
  SelectSeq(FieldOrder, LAMBDA f : f \in DOMAIN doc /\ doc[f].type # "undefined")

\* the tokens of a JSON text
OpenBrace == [t |-> "{", k |-> "", v |-> JsNull]

CloseBrace == [t |-> "}", k |-> "", v |-> JsNull]

\* a member of the object, with the comma that follows it when it is not the last
Member(k, v) == [t |-> "member", k |-> k, v |-> v]

MemberComma(k, v) == [t |-> "member,", k |-> k, v |-> v]

\* bytes of a file that were never written (a write past the end of the file)
Hole == [t |-> "nul", k |-> "", v |-> JsNull]

RECURSIVE Members(_, _)
Members(doc, fields) ==
  IF fields = <<>> THEN <<>>
  ELSE IF Len(fields) = 1 THEN <<Member(fields[1], JsonValue(doc[fields[1]]))>>
  ELSE <<MemberComma(fields[1], JsonValue(doc[fields[1]]))>> \o Members(doc, Tail(fields))

\* JSON.stringify(validation, null, 2)
Stringify(doc) == <<OpenBrace>> \o Members(doc, EmittedFields(doc)) \o <<CloseBrace>>

\* the text is one JSON object: braces around members separated by commas
WellFormed(data) ==
  /\ Len(data) >= 2
  /\ data[1] = OpenBrace
  /\ data[Len(data)] = CloseBrace
  /\ \A i \in 2..(Len(data) - 1) :
       data[i].t = (IF i = Len(data) - 1 THEN "member" ELSE "member,")

IsMember(tok) == tok.t \in {"member", "member,"}

\* the position of the last member of the text with key f
LastMember(data, f) ==
  CHOOSE i \in 1..Len(data) :
    /\ IsMember(data[i]) /\ data[i].k = f
    /\ \A j \in (i + 1)..Len(data) : ~(IsMember(data[j]) /\ data[j].k = f)

\* JSON.parse of a well-formed text
ParseDoc(data) ==
  [f \in {data[i].k : i \in {j \in 1..Len(data) : IsMember(data[j])}} |->
     data[LastMember(data, f)].v]

\* what a saved record reads back as
JsonImage(doc) == ParseDoc(Stringify(doc))

\* ------------------------------------------------------- loadValidation
\* attempts are numbered 0, 1, 2
LastAttempt == 2

\* a load that gives up at the first empty or unparseable body
ShouldRetry_Never(attempt) == FALSE

\* if (attempt < 2) { wait 100 ms; continue }
ShouldRetry(attempt) == attempt < LastAttempt

EndsWithComma(data) == data # <<>> /\ data[Len(data)].t = "member,"

EndsWithBrace(data) == data # <<>> /\ data[Len(data)] = CloseBrace

\* trimmed.slice(0, -1) + '}'
Repaired(data) ==
  [data EXCEPT ![Len(data)] = Member(data[Len(data)].k, data[Len(data)].v)] \o <<CloseBrace>>

NoDoc == <<>>

Outcome(kind, doc) == [kind |-> kind, doc |-> doc]

NoOutcome == Outcome("none", NoDoc)

\* one pass through the body of the loop, for the text fs.readFile returned
AttemptOutcome(data, attempt) ==
  IF data = <<>>
    THEN IF ShouldRetry(attempt) THEN Outcome("retry", NoDoc) ELSE Outcome("null", NoDoc)
  ELSE IF WellFormed(data) THEN Outcome("doc", ParseDoc(data))
  ELSE IF attempt = LastAttempt /\ EndsWithComma(data)
    THEN IF WellFormed(Repaired(data))
           THEN Outcome("doc", ParseDoc(Repaired(data)))
           ELSE Outcome("throw", NoDoc)
  ELSE IF attempt = LastAttempt /\ ~EndsWithBrace(data) THEN Outcome("null", NoDoc)
  ELSE IF ShouldRetry(attempt) THEN Outcome("retry", NoDoc)
  ELSE Outcome("throw", NoDoc)

\* ------------------------------------------------------- processes
\* the record the trigger saved
DocInitial ==
  [id |-> JsString("v1"), status |-> JsString("PROCESSING"), progress |-> JsNumber("0")]

\* a record with every field a JSON value, longer than the others
DocFailed ==
  [id |-> JsString("v1"), status |-> JsString("FAILED"), progress |-> JsNumber("15"),
   errorMessage |-> JsString("Refined idea data REQUIRED - no fallback available")]

\* a record with a number that is not finite and a property that is undefined
DocOdd ==
  [id |-> JsString("v1"), status |-> JsString("PROCESSING"), progress |-> JsNumber("NaN"),
   errorMessage |-> JsUndefined]

\* the documents the writers save
SaveDocs == {DocFailed, DocOdd}

\* the update of the background task's FAILED write
UpdateFailed ==
  [status |-> JsString("FAILED"), errorMessage |-> JsString("Unknown pipeline error")]

\* the updates the writers apply
Updates == {UpdateFailed}

\* a process: the call it is in (call, arg, pc), the loop of loadValidation
\* (attempt), the fs.writeFile in progress (saving, text, fd, pos, chunks), what
\* the call returned (out); and, as history, what each read found (seen,
\* lastRead), the document in the record file when the call began (stored) and
\* when it ended (after), the save that completed last before the call began
\* (follows), whether the call wrote to the file system (wrote) and whether
\* another process did so during the call (disturbed)
IdleProc ==
  [call |-> "none", pc |-> "idle", arg |-> NoDoc, attempt |-> 0, seen |-> <<>>,
   lastRead |-> <<>>, saving |-> NoDoc, text |-> <<>>, fd |-> 0, pos |-> 0, chunks |-> 0,
   out |-> NoOutcome, stored |-> NoDoc, after |-> NoDoc, follows |-> NoDoc,
   wrote |-> FALSE, disturbed |-> FALSE]

InCall(q) == q.pc \notin {"idle", "done"}

\* history: process w changed the file system; the calls in progress of the
\* others are disturbed
Disturb(pr, w) ==
  [p \in Procs |-> IF p # w /\ InCall(pr[p]) THEN [pr[p] EXCEPT !.disturbed = TRUE]
                   ELSE IF p = w THEN [pr[p] EXCEPT !.wrote = TRUE]
                   ELSE pr[p]]

\* what a read of the record path finds, for the history of a call
Observe(data) ==
  IF data = <<>> THEN "empty"
  ELSE IF WellFormed(data) THEN "complete"
  ELSE "truncated"

\* the document the record file holds, NoDoc when it holds none
FileDoc ==
  IF filePath # 0 /\ WellFormed(inode[filePath]) THEN ParseDoc(inode[filePath]) ELSE NoDoc

\* inodes a path or an open file descriptor refers to
Referenced(fp, tp, pr) == ({fp, tp} \cup {pr[p].fd : p \in Procs}) \ {0}

\* inodes nobody refers to are freed
Collect(ino, fp, tp, pr) ==
  [i \in 1..NumInodes |-> IF i \in Referenced(fp, tp, pr) THEN ino[i] ELSE <<>>]

FreeInode == CHOOSE i \in 1..NumInodes :
               /\ i \notin Referenced(filePath, tmpPath, proc)
               /\ \A j \in 1..(i - 1) : j \in Referenced(filePath, tmpPath, proc)

\* a write of chunk at offset pos: the file grows as needed
Overlay(data, pos, chunk) ==
  [i \in 1..(IF Len(data) > pos + Len(chunk) THEN Len(data) ELSE pos + Len(chunk)) |->
     IF i > pos /\ i <= pos + Len(chunk) THEN chunk[i - pos]
     ELSE IF i <= Len(data) THEN data[i]
     ELSE Hole]

StoreInit ==
  /\ RunUnused /\ CacheUnused /\ ScorerUnused /\ AuxUnused
  /\ \E present \in BOOLEAN :
       /\ filePath = (IF present THEN 1 ELSE 0)
       /\ inode = [i \in 1..NumInodes |->
                     IF present /\ i = 1 THEN Stringify(DocInitial) ELSE <<>>]
       /\ written = (IF present THEN {DocInitial} ELSE {})
  /\ tmpPath = 0
  /\ proc = [p \in Procs |-> IdleProc]
  /\ lastSave = NoDoc

StoreFrame == UNCHANGED <<runVars, cacheVars, scoreVars, auxVars>>

\* a process begins a call
Begin(call, arg, at) ==
  [IdleProc EXCEPT !.call = call, !.pc = at, !.arg = arg, !.stored = FileDoc,
                   !.follows = lastSave]

\* saveValidation(d) is called
CallSave(w) ==
  /\ proc[w].pc = "idle"
  /\ \E d \in SaveDocs :
       proc' = [proc EXCEPT ![w] = [Begin("save", d, "open") EXCEPT
                                      !.saving = d, !.text = Stringify(d)]]
  /\ UNCHANGED <<filePath, tmpPath, inode, lastSave, written>>
  /\ StoreFrame

\* updateValidation(id, u) is called
CallUpdate(w) ==
  /\ w \in Updaters
  /\ proc[w].pc = "idle"
  /\ \E u \in Updates : proc' = [proc EXCEPT ![w] = Begin("update", u, "load")]
  /\ UNCHANGED <<filePath, tmpPath, inode, lastSave, written>>
  /\ StoreFrame

\* loadValidation(id) is called
CallLoad ==
  /\ proc["r"].pc = "idle"
  /\ proc' = [proc EXCEPT !["r"] = Begin("load", NoDoc, "load")]
  /\ UNCHANGED <<filePath, tmpPath, inode, lastSave, written>>
  /\ StoreFrame

\* what a call does with the outcome of a pass through the loop of loadValidation
AfterAttempt(q, o, observed, data) ==
  LET h == [q EXCEPT !.seen = Append(q.seen, observed), !.lastRead = data]
  IN  CASE o.kind = "retry" -> [h EXCEPT !.attempt = q.attempt + 1]
        [] o.kind = "doc" /\ q.call = "update" ->
             [h EXCEPT !.pc = "open",
                       !.saving = ShallowMerge(o.doc, q.arg),
                       !.text = Stringify(ShallowMerge(o.doc, q.arg))]
        [] OTHER -> [h EXCEPT !.pc = "done", !.out = o, !.after = FileDoc]

\* loadValidation: fs.readFile returns the body of the record file
ReadAttempt(p) ==
  /\ proc[p].pc = "load"
  /\ filePath # 0
  /\ proc' = [proc EXCEPT ![p] =
                AfterAttempt(proc[p], AttemptOutcome(inode[filePath], proc[p].attempt),
                             Observe(inode[filePath]), inode[filePath])]
  /\ UNCHANGED <<filePath, tmpPath, inode, lastSave, written>>
  /\ StoreFrame

\* loadValidation: fs.readFile fails with ENOENT, the call returns null
ReadNoFile(p) ==
  /\ proc[p].pc = "load"
  /\ filePath = 0
  /\ proc' = [proc EXCEPT ![p] =
                AfterAttempt(proc[p], Outcome("null", NoDoc), "absent", <<>>)]
  /\ UNCHANGED <<filePath, tmpPath, inode, lastSave, written>>
  /\ StoreFrame

\* saveValidation: fs.writeFile opens the temporary path, creating or truncating it
WriteFileOpen(w) ==
  /\ proc[w].pc = "open"
  /\ LET target == IF tmpPath = 0 THEN FreeInode ELSE tmpPath
     IN  /\ tmpPath' = target
         /\ inode' = [inode EXCEPT ![target] = <<>>]
         /\ proc' = Disturb([proc EXCEPT ![w] = [@ EXCEPT !.pc = "write", !.fd = target,
                                                           !.pos = 0]], w)
  /\ lastSave' = NoDoc
  /\ UNCHANGED <<filePath, written>>
  /\ StoreFrame

\* saveValidation: fs.writeFile writes the next chunk of the text; after the
\* last one it closes the file
WriteFileChunk(w) ==
  /\ proc[w].pc = "write"
  /\ \E n \in 1..(Len(proc[w].text) - proc[w].pos) :
       /\ proc[w].chunks + 1 = MaxChunks => n = Len(proc[w].text) - proc[w].pos
       /\ LET q == proc[w]
              finished == q.pos + n = Len(q.text)
              pr == Disturb([proc EXCEPT ![w] =
                               [q EXCEPT !.pos = q.pos + n, !.chunks = q.chunks + 1,
                                         !.fd = IF finished THEN 0 ELSE q.fd,
                                         !.pc = IF finished THEN "rename" ELSE "write"]], w)
          IN  /\ proc' = pr
              /\ inode' = Collect([inode EXCEPT ![q.fd] =
                                     Overlay(inode[q.fd], q.pos, SubSeq(q.text, q.pos + 1, q.pos + n))],
                                  filePath, tmpPath, pr)
              /\ written' = IF finished THEN written \cup {q.saving} ELSE written
  /\ lastSave' = NoDoc
  /\ UNCHANGED <<filePath, tmpPath>>
  /\ StoreFrame

\* saveValidation: fs.rename moves the temporary file onto the record file
Rename(w) ==
  /\ proc[w].pc = "rename"
  /\ tmpPath # 0
  /\ filePath' = tmpPath
  /\ tmpPath' = 0
  /\ LET out == IF proc[w].call = "update" THEN Outcome("doc", proc[w].saving)
                ELSE Outcome("void", NoDoc)
         after == IF WellFormed(inode[tmpPath]) THEN ParseDoc(inode[tmpPath]) ELSE NoDoc
         pr == Disturb([proc EXCEPT ![w] = [@ EXCEPT !.pc = "done", !.out = out,
                                                     !.after = after]], w)
     IN  /\ proc' = pr
         /\ inode' = Collect(inode, tmpPath, 0, pr)
  /\ lastSave' = proc[w].saving
  /\ UNCHANGED written
  /\ StoreFrame

\* saveValidation: fs.rename finds no temporary file; the catch block's unlink
\* fails as well and the call throws
RenameNoFile(w) ==
  /\ proc[w].pc = "rename"
  /\ tmpPath = 0
  /\ proc' = [proc EXCEPT ![w] = [@ EXCEPT !.pc = "done", !.out = Outcome("throw", NoDoc),
                                            !.after = FileDoc]]
  /\ UNCHANGED <<filePath, tmpPath, inode, lastSave, written>>
  /\ StoreFrame

\* saveValidation: fs.writeFile fails after it opened the temporary path; the
\* catch block unlinks that path and the call throws
SaveFault(w) ==
  /\ proc[w].pc = "write"
  /\ LET done == [proc EXCEPT ![w] = [@ EXCEPT !.pc = "done", !.fd = 0,
                                               !.out = Outcome("throw", NoDoc),
                                               !.after = FileDoc]]
         pr == IF tmpPath # 0 THEN Disturb(done, w) ELSE done
     IN  /\ proc' = pr
         /\ inode' = Collect(inode, filePath, 0, pr)
  /\ tmpPath' = 0
  /\ lastSave' = IF tmpPath # 0 THEN NoDoc ELSE lastSave
  /\ UNCHANGED <<filePath, written>>
  /\ StoreFrame

StoreNext ==
  \/ \E w \in Writers : CallSave(w)
  \/ \E w \in Writers : CallUpdate(w)
  \/ CallLoad
  \/ \E p \in Procs : ReadAttempt(p)
  \/ \E p \in Procs : ReadNoFile(p)
  \/ \E w \in Writers : WriteFileOpen(w)
  \/ \E w \in Writers : WriteFileChunk(w)
  \/ \E w \in Writers : Rename(w)
  \/ \E w \in Writers : RenameNoFile(w)
  \/ \E w \in Writers : SaveFault(w)

StoreSpec == StoreInit /\ [][StoreNext]_vars

\* ================================================================ the cache
\* saveCache and loadCache of storage/json.ts on one key, with the clock that
\* Date.now() and new Date() read.  Time is in milliseconds.

MaxSeconds == 2      \* seconds the clock runs, and the largest ttl passed

\* the payloads that are cached
CacheData == {"insight-a", "insight-b"}

NoEntry == <<>>

\* the entry saveCache writes at time now; expiresAt = now + ttl * 1000
CacheEntry(data, now, ttl) ==
  [data |-> data, createdAt |-> now, expiresAt |-> now + ttl * 1000, ttl |-> ttl,
   parses |-> TRUE]

\* what a failed fs.writeFile leaves behind: a text JSON.parse rejects
BrokenEntry == [data |-> "", createdAt |-> 0, expiresAt |-> 0, ttl |-> 0, parses |-> FALSE]

\* new Date() > new Date(cacheEntry.expiresAt)
IsExpired(now, entry) == now > entry.expiresAt

\* what a loadCache call returned: when, for which entry, with what value
\* (Null: null), and whether it unlinked the file
Null == "null"

CacheResult(now, entry, value, deleted) ==
  [at |-> now, entry |-> entry, value |-> value, deleted |-> deleted]

CacheInit ==
  /\ RunUnused /\ StoreUnused /\ ScorerUnused /\ AuxUnused
  /\ clock = 0
  /\ cacheFile = NoEntry
  /\ cacheOut = <<>>

CacheFrame == UNCHANGED <<runVars, storeVars, scoreVars, auxVars>>

\* half a second passes
Tick ==
  /\ clock + 500 <= MaxSeconds * 1000
  /\ clock' = clock + 500
  /\ UNCHANGED <<cacheFile, cacheOut>>
  /\ CacheFrame

\* saveCache(key, data, ttl): the entry is written
SaveCache ==
  /\ \E data \in CacheData, ttl \in 0..MaxSeconds :
       cacheFile' = CacheEntry(data, clock, ttl)
  /\ UNCHANGED <<clock, cacheOut>>
  /\ CacheFrame

\* saveCache: fs.writeFile fails part way; the error is logged and swallowed
SaveCacheFault ==
  /\ cacheFile' = BrokenEntry
  /\ UNCHANGED <<clock, cacheOut>>
  /\ CacheFrame

\* loadCache(key)
LoadCache ==
  /\ IF cacheFile = NoEntry \/ ~cacheFile.parses
       THEN /\ cacheOut' = CacheResult(clock, cacheFile, Null, FALSE)
            /\ UNCHANGED cacheFile
       ELSE IF IsExpired(clock, cacheFile)
         THEN /\ cacheOut' = CacheResult(clock, cacheFile, Null, TRUE)
              /\ cacheFile' = NoEntry
         ELSE /\ cacheOut' = CacheResult(clock, cacheFile, cacheFile.data, FALSE)
              /\ UNCHANGED cacheFile
  /\ UNCHANGED clock
  /\ CacheFrame

\* loadCache of an expired entry: fs.unlink fails, the call returns null and
\* the file stays
LoadCacheUnlinkFault ==
  /\ cacheFile # NoEntry
  /\ cacheFile.parses
  /\ IsExpired(clock, cacheFile)
  /\ cacheOut' = CacheResult(clock, cacheFile, Null, FALSE)
  /\ UNCHANGED <<clock, cacheFile>>
  /\ CacheFrame

CacheNext ==
  \/ Tick
  \/ SaveCache
  \/ SaveCacheFault
  \/ LoadCache
  \/ LoadCacheUnlinkFault

CacheSpec == CacheInit /\ [][CacheNext]_vars

\* ================================================================ the scorer calls
\* ------------------------------------------------------- scorer actions
\* One call per behaviour: either an insight is built and scored, or
\* getGradeFromScore is called.
ScoreInit ==
  /\ RunUnused /\ StoreUnused /\ CacheUnused /\ AuxUnused
  /\ insight = <<>>
  /\ scores = <<>>
  /\ graded = <<>>

ScoreFrame == UNCHANGED <<runVars, storeVars, cacheVars, auxVars>>

\* searchRedditDiscussions builds the insight from the analysis result
BuildFromAnalysis ==
  /\ insight = <<>> /\ graded = <<>>
  /\ \E groups \in Profiles : insight' = BuildInsight(groups)
  /\ UNCHANGED <<scores, graded>>
  /\ ScoreFrame

\* the scorer is handed an insight that has no realData
BuildWithoutRealData ==
  /\ insight = <<>> /\ graded = <<>>
  /\ insight' = InsightWithoutRealData
  /\ UNCHANGED <<scores, graded>>
  /\ ScoreFrame

\* step 10: calculateRealValidationScore(redditData, null)
CalculateScore ==
  /\ insight # <<>> /\ scores = <<>>
  /\ scores' = calculateRealValidationScore(insight)
  /\ UNCHANGED <<insight, graded>>
  /\ ScoreFrame

\* getGradeFromScore(score)
GetGrade ==
  /\ insight = <<>> /\ graded = <<>>
  /\ \E score \in GradedScores :
       graded' = [score |-> score, grade |-> getGradeFromScore(score)]
  /\ UNCHANGED <<insight, scores>>
  /\ ScoreFrame

ScoreNext ==
  \/ BuildFromAnalysis
  \/ BuildWithoutRealData
  \/ CalculateScore
  \/ GetGrade

ScoreSpec == ScoreInit /\ [][ScoreNext]_vars

\* ================================================================ the provider
\* One use of model.generateContent by a call site: the retry loop of the
\* refine-idea route, and the call sites of the run, which call it once.

\* the call sites
RetryingSites == {"refine"}

SingleCallSites == {"generateKeywords", "analyzeRedditContent", "researchCompetitors"}

Sites == RetryingSites \cup SingleCallSites

\* the messages of the errors generateContent rejects with (NoMessage: an
\* error without a message)
NoMessage == "<undefined>"

OverloadMessages ==
  {"The model is overloaded. Please try again later.",
   "[503 Service Unavailable] The model is overloaded.",
   "[503 Service Unavailable]"}

OtherMessages ==
  {"[429 Too Many Requests] Resource has been exhausted",
   "API key not valid. Please pass a valid API key.",
   "fetch failed",
   NoMessage}

ErrorMessages == OverloadMessages \cup OtherMessages

\* apiError.message?.includes('overloaded') || apiError.message?.includes('503')
IsOverloadError(message) == message \in OverloadMessages

maxRetries == 3

IdleCall(site) ==
  [site |-> site, pc |-> "generate", retryCount |-> 0, attempts |-> 0,
   failures |-> <<>>, waited |-> <<>>, outcome |-> "none"]

ProviderInit ==
  /\ RunUnused /\ StoreUnused /\ CacheUnused /\ ScorerUnused
  /\ genCall = <<>>
  /\ extraction = <<>>
  /\ search = <<>>

ProviderFrame == UNCHANGED <<runVars, storeVars, cacheVars, scoreVars, extraction, search>>

\* a call site is about to call the provider
CallProvider ==
  /\ genCall = <<>>
  /\ \E site \in Sites : genCall' = IdleCall(site)
  /\ ProviderFrame

\* model.generateContent(prompt) resolves
GenerateContentOk ==
  /\ genCall # <<>>
  /\ genCall.pc = "generate"
  /\ genCall' = [genCall EXCEPT !.attempts = @ + 1, !.outcome = "result", !.pc = "done"]
  /\ ProviderFrame

\* what the retry loop of the refine route does with a rejection
AfterRejection(call, message) ==
  LET c == [call EXCEPT !.attempts = @ + 1, !.failures = Append(@, message),
                        !.retryCount = @ + 1]
  IN  IF IsOverloadError(message)
        THEN IF c.retryCount < maxRetries
               THEN [c EXCEPT !.pc = "backoff", !.waited = Append(@, 2000 * c.retryCount)]
               ELSE [c EXCEPT !.pc = "done", !.outcome = "unavailable"]
        ELSE [c EXCEPT !.pc = "done", !.outcome = "throw"]

\* model.generateContent(prompt) rejects
GenerateContentFail ==
  /\ genCall # <<>>
  /\ genCall.pc = "generate"
  /\ \E message \in ErrorMessages :
       genCall' = IF genCall.site \in RetryingSites
                    THEN AfterRejection(genCall, message)
                    ELSE [genCall EXCEPT !.attempts = @ + 1,
                                         !.failures = Append(@, message),
                                         !.pc = "done", !.outcome = "throw"]
  /\ ProviderFrame

\* the timer of the retry loop fires
BackoffElapsed ==
  /\ genCall # <<>>
  /\ genCall.pc = "backoff"
  /\ genCall' = [genCall EXCEPT !.pc = "generate"]
  /\ ProviderFrame

ProviderNext ==
  \/ CallProvider
  \/ GenerateContentOk
  \/ GenerateContentFail
  \/ BackoffElapsed

ProviderSpec == ProviderInit /\ [][ProviderNext]_vars

\* ------------------------------------------------------- extractor actions
ExtractInit ==
  /\ RunUnused /\ StoreUnused /\ CacheUnused /\ ScorerUnused
  /\ genCall = <<>>
  /\ extraction = <<>>
  /\ search = <<>>

ExtractFrame == UNCHANGED <<runVars, storeVars, cacheVars, scoreVars, genCall, search>>

\* response.text(): the provider answers with an object
ProviderAnswers ==
  /\ extraction = <<>>
  /\ \E schema \in Schemas, pretty \in BOOLEAN, trailing \in BOOLEAN, wrap \in Wrappings :
       \E members \in MemberLists(schema) :
         extraction' = Received(schema, members, pretty, trailing, wrap,
                                Wrapped(ObjectText(members, pretty, trailing), wrap))
  /\ ExtractFrame

\* response.text(): the provider answers with prose and no object
ProviderAnswersProse ==
  /\ extraction = <<>>
  /\ \E schema \in Schemas :
       extraction' = Received(schema, <<>>, FALSE, FALSE, "none", <<Prose>>)
  /\ ExtractFrame

\* analyzeRedditContent: analysis = parseAIResponse(aiText)
ParseAIResponse ==
  /\ extraction # <<>>
  /\ extraction.schema = "analysis"
  /\ extraction.out = NoExtracted
  /\ extraction' = [extraction EXCEPT !.out = parseAIResponse(extraction.text)]
  /\ ExtractFrame

\* analyzeStartupIdea: the parsing of response.text()
AnalyzeStartupIdea ==
  /\ extraction # <<>>
  /\ extraction.schema = "idea"
  /\ extraction.out = NoExtracted
  /\ extraction' = [extraction EXCEPT !.out = analyzeStartupIdea(extraction.text)]
  /\ ExtractFrame

ExtractNext ==
  \/ ProviderAnswers
  \/ ProviderAnswersProse
  \/ ParseAIResponse
  \/ AnalyzeStartupIdea

ExtractSpec == ExtractInit /\ [][ExtractNext]_vars

\* ================================================================ the discussion search
\* the probe loop of searchRedditDiscussions: one probe is one community and
\* one query

MaxCommunities == 2  \* communities the keyword data recommends
MaxQueries == 3      \* search queries of a run

\* await sleep(1500), in milliseconds
RateLimitDelay == 1500

\* the posts collected for the analysis are limited
PostLimit == 100

\* comments are fetched while fewer posts than this are collected
CommentPostLimit == 50

\* how many posts one searchSubreddit call can return
PostsFound == {0, 2, PostLimit}

\* the catch of a probe: continue, without a delay
DelayAfterFailure == 0

\* the loop before its first probe of subreddits x searchQueries
SearchStarted(communities, queries) ==
  [communities |-> communities, queries |-> queries,
   community |-> 1, query |-> 1,
   pc |-> "probe",
   allPosts |-> 0,
   outstanding |-> 0,        \* requests sent and not yet answered
   probes |-> 0,             \* searchSubreddit calls made
   failures |-> 0,           \* searchResults entries with an error
   slept |-> 0,              \* milliseconds slept since the last probe request
   gap |-> -1,               \* milliseconds slept between the last two probe requests
   afterFailure |-> FALSE,   \* the probe before the last one failed
   lastRequest |-> "none"]

\* the next pair of the two loops, or the end behind the last pair
NextProbe(st) ==
  IF st.query < st.queries THEN [st EXCEPT !.query = st.query + 1, !.pc = "probe"]
  ELSE IF st.community < st.communities
    THEN [st EXCEPT !.community = st.community + 1, !.query = 1, !.pc = "probe"]
  ELSE [st EXCEPT !.pc = "analysis"]

SearchInit ==
  /\ RunUnused /\ StoreUnused /\ CacheUnused /\ ScorerUnused
  /\ genCall = <<>>
  /\ extraction = <<>>
  /\ search = <<>>

SearchFrame == UNCHANGED <<runVars, storeVars, cacheVars, scoreVars, genCall, extraction>>

\* searchRedditDiscussions is called with the communities and queries of step 1
StartSearch ==
  /\ search = <<>>
  /\ \E communities \in 1..MaxCommunities, queries \in 1..MaxQueries :
       search' = SearchStarted(communities, queries)
  /\ SearchFrame

\* await searchSubreddit(subreddit, query): the request is sent
SendProbe ==
  /\ search # <<>>
  /\ search.pc = "probe"
  /\ search' = [search EXCEPT !.pc = "awaitSearch",
                              !.outstanding = search.outstanding + 1,
                              !.probes = search.probes + 1,
                              !.gap = IF search.probes = 0 THEN -1 ELSE search.slept,
                              !.afterFailure = search.probes > 0 /\ search.lastRequest = "failed",
                              !.slept = 0,
                              !.lastRequest = "search"]
  /\ SearchFrame

\* the request is answered with posts: they are collected up to the limit,
\* the comments of a post are requested while few posts are collected, and the
\* loop sleeps
ProbeAnswered ==
  /\ search # <<>>
  /\ search.pc = "awaitSearch"
  /\ \E posts \in PostsFound, comments \in BOOLEAN :
       /\ comments => (posts > 0 /\ search.allPosts < CommentPostLimit)
       /\ search' = [search EXCEPT !.pc = "sleep",
                                   !.outstanding = search.outstanding - 1,
                                   !.allPosts = Min2(search.allPosts + posts, PostLimit),
                                   !.lastRequest = IF comments THEN "comments" ELSE "search"]
  /\ SearchFrame

\* the request fails: the error is logged and the loop continues with the
\* next pair
ProbeFailed ==
  /\ search # <<>>
  /\ search.pc = "awaitSearch"
  /\ search' = [NextProbe(search) EXCEPT !.outstanding = search.outstanding - 1,
                                         !.failures = search.failures + 1,
                                         !.slept = search.slept + DelayAfterFailure,
                                         !.lastRequest = "failed"]
  /\ SearchFrame

\* the sleep behind an answered probe has elapsed; the loops end when the
\* limit of collected posts is reached
DelayElapsed ==
  /\ search # <<>>
  /\ search.pc = "sleep"
  /\ search' = IF search.allPosts >= PostLimit
                 THEN [search EXCEPT !.pc = "analysis", !.slept = search.slept + RateLimitDelay]
                 ELSE [NextProbe(search) EXCEPT !.slept = search.slept + RateLimitDelay]
  /\ SearchFrame

SearchNext ==
  \/ StartSearch
  \/ SendProbe
  \/ ProbeAnswered
  \/ ProbeFailed
  \/ DelayElapsed

SearchSpec == SearchInit /\ [][SearchNext]_vars

\* ================================================================ claims
TerminalStatuses == {"COMPLETED", "FAILED"}

LastSite == IF snapshots = <<>> THEN "none" ELSE snapshots[Len(snapshots)].site

ProcessingIn(statusOf) == {n \in StepNumbers : statusOf[n] = "processing"}

MemoryStatus == [n \in StepNumbers |-> steps[n].status]

\* the step lists that were persisted, one per write that carried one
PersistedStepLists ==
  {snapshots[i].stepStatus : i \in {j \in 1..Len(snapshots) : snapshots[j].stepStatus # <<>>}}

\* C1: in every persisted snapshot of the run progress is an integer in
\* 0..100, and along the sequence of persisted snapshots (the trigger's initial
\* record, every updateStepStatus write, the final status write) progress never
\* decreases.
C1_ProgressBoundedMonotone ==
  \A i \in 1..Len(snapshots) :
    /\ snapshots[i].progress \in 0..100
    /\ i > 1 => snapshots[i - 1].progress <= snapshots[i].progress

\* a run that went through all ten steps: 1 initial write, 20 step writes and
\* the final COMPLETED write
C1_Witness ==
  /\ pc = "done"
  /\ Len(snapshots) = 2 * NumSteps + 2
  /\ snapshots[1].progress = 0
  /\ snapshots[Len(snapshots)].progress = 100
  /\ LastSite = "final-completed"

C3_AtMostOneProcessing ==
  /\ Cardinality(ProcessingIn(MemoryStatus)) <= 1
  /\ \A l \in PersistedStepLists : Cardinality(ProcessingIn(l)) <= 1

\* execute() is in its catch block with a step still marked processing (the
\* write that marks it processing threw, or the completion text could not be
\* built), after earlier steps completed
C3_Witness ==
  /\ pc = "executeCatch"
  /\ FindProcessing(steps) = 5
  /\ Cardinality(ProcessingIn(MemoryStatus)) = 1
  /\ steps[4].status = "completed"

\* C4: once the background task of a started run has ended, the record has a
\* terminal status: COMPLETED when all ten steps succeeded, FAILED otherwise.
C4_TerminalWhenTaskEnded ==
  pc \in {"done", "unhandled"} =>
    /\ record.status \in TerminalStatuses
    /\ (record.status = "COMPLETED") <=> (result.state = "success")

\* C5: execute() never raises to its caller; after a failure of a step
\* function or of the record-store update that marks a step processing or
\* completed, no later step is attempted and execute() returns success=false
\* with the captured message of the error.
FailurePcs ==
  {"stepCatch", "updFailedInner", "executeCatch", "updFailedOuter", "executeReturnFail",
   "routeResult"}

\* the task is past its call of execute()
AfterExecutePcs == {"routeCatch", "done", "unhandled"}

C5_ExecuteNeverRaises ==
  /\ result.state # "raised"
  /\ (err # NoError /\ pc \notin AfterExecutePcs) =>
       /\ pc \in FailurePcs
       /\ result.state # "success"
       /\ \A n \in StepNumbers : n > cur => (invoked[n] = 0 /\ steps[n].status = "pending")
  /\ result.state = "failure" =>
       \A n \in StepNumbers : n > cur => (invoked[n] = 0 /\ steps[n].status = "pending")
  /\ (pc = "routeResult" /\ result.state = "failure") =>
       /\ err # NoError
       /\ result.error = (IF err.isError THEN err.message ELSE "Pipeline execution failed")
  /\ (pc = "routeResult" /\ result.state = "success") =>
       /\ err = NoError
       /\ \A n \in StepNumbers : steps[n].status = "completed"
  /\ pc \in AfterExecutePcs => result.state \in {"success", "failure"}

\* the record-store update that marks step 4 completed threw: execute()
\* returned a failure result with the store's message, step 4 is 'completed'
\* in memory and no step is 'failed'
C5_Witness ==
  /\ pc = "routeResult"
  /\ result.state = "failure"
  /\ result.error = "Failed to save validation data"
  /\ threwAt = 0
  /\ cur = 4
  /\ steps[4].status = "completed"
  /\ invoked[5] = 0

\* C6: steps run in the fixed order 1..10: a step is marked only when its
\* predecessor is completed, at most one step function is in flight, and each
\* step function is invoked at most once per run.
InOrder(statusOf) ==
  \A n \in 1..(NumSteps - 1) : statusOf[n + 1] # "pending" => statusOf[n] = "completed"

C6_SequentialOnce ==
  /\ InOrder(MemoryStatus)
  /\ \A l \in PersistedStepLists : InOrder(l)
  /\ Cardinality(inFlight) <= 1
  /\ \A n \in StepNumbers : invoked[n] <= 1
  /\ \A n \in StepNumbers : invoked[n] = 1 => \A m \in 1..(n - 1) : invoked[m] = 1

\* the step function of step 10 is in flight after the nine others ran once
C6_Witness ==
  /\ pc = "stepBody"
  /\ cur = NumSteps
  /\ inFlight = {NumSteps}
  /\ \A n \in StepNumbers : invoked[n] = 1

\* C7: once the record has been persisted with status COMPLETED or FAILED, no
\* later write of the run changes any field of it.
C7_TerminalRecordImmutable ==
  [][(record # NoFile /\ record.status \in TerminalStatuses) => record' = record]_vars

\* a terminal record was persisted and the task has ended
C7_Witness ==
  /\ record # NoFile
  /\ record.status = "COMPLETED"
  /\ pc = "done"
  /\ trig = "returned"

ZeroDiscussions == redditData.fetched /\ redditData.totalMentions = 0

C9_ZeroDiscussionsContinue ==
  ZeroDiscussions =>
    /\ steps[2].status \in {"processing", "completed"}
    /\ threwAt # 2
    /\ (cur = 2 /\ pc = "stepReturn") => (stepResult.success /\ stepResult.dataPoints = 0)
    /\ cur > 2 => steps[2].status = "completed"
    /\ (cur = 2 /\ pc = "updCompleted") => steps[2].status = "completed"
    /\ (pc \in {"done", "unhandled"} /\ err = NoError) =>
         /\ record.status = "COMPLETED"
         /\ \A n \in StepNumbers : record.processingSteps[n].status = "completed"
         /\ record.finalScore.realData.redditMentions = 0

\* the search collected no post at all and the run ended COMPLETED
C9_Witness ==
  /\ ZeroDiscussions
  /\ redditData.posts = 0
  /\ pc = "done"
  /\ record.status = "COMPLETED"
  /\ invoked[NumSteps] = 1

\* C10 as stated: the record the trigger persists has status PENDING and
\* progress 0, that write precedes every update of the orchestrator, and the
\* trigger has answered without waiting for the run.
C10_InitialRecordPending ==
  /\ Len(snapshots) >= 1 =>
       /\ snapshots[1].site = "initial"
       /\ snapshots[1].status = "PENDING"
       /\ snapshots[1].progress = 0
  /\ \A i \in 2..Len(snapshots) : snapshots[i].site # "initial"
  /\ pc # "notStarted" => (Len(snapshots) >= 1 /\ trig = "returned")

\* C10 amended: the record the trigger persists has status PROCESSING and
\* progress 0, that write precedes every update of the orchestrator, and the
\* trigger has answered without waiting for the run.
C10_InitialRecordProcessing ==
  /\ Len(snapshots) >= 1 =>
       /\ snapshots[1].site = "initial"
       /\ snapshots[1].status = "PROCESSING"
       /\ snapshots[1].progress = 0
  /\ \A i \in 2..Len(snapshots) : snapshots[i].site # "initial"
  /\ pc # "notStarted" => (Len(snapshots) >= 1 /\ trig = "returned")

\* the trigger has answered, the orchestrator waits for its first record
\* update and the record is still the one the trigger saved
C10_Witness ==
  /\ trig = "returned"
  /\ pc = "updProcessing"
  /\ cur = 1
  /\ Len(snapshots) = 1
  /\ record = InitialRecord

\* ------------------------------------------------------- record store claims
\* the loadValidation calls that have returned
LoadsDone == {p \in DOMAIN proc : proc[p].call = "load" /\ proc[p].pc = "done"}

\* the calls whose loop of read attempts is over
LoadLoopOver(q) == q.call \in {"load", "update"} /\ q.pc # "load" /\ q.seen # <<>>

\* every read of the call found an empty or an unparseable body
OnlyBadReads(seen) == \A i \in 1..Len(seen) : seen[i] \in {"empty", "truncated"}

\* C11: whatever the interleaving of saveValidation and loadValidation calls on
\* one id, two overlapping saves included, a document loadValidation returns is
\* one that some saveValidation call wrote in full: never a partially written,
\* mixed or repaired-from-truncation document.
C11_LoadReturnsWrittenDocument ==
  \A p \in LoadsDone :
    proc[p].out.kind = "doc" => proc[p].out.doc \in {JsonImage(d) : d \in written}

\* C12: loadValidation returns null only when the record file does not exist,
\* and then on the first attempt; when the file exists and each of the three
\* attempts reads an empty or unparseable body, the call raises the
\* transient-unavailable error.
C12_NullOnlyWhenFileAbsent ==
  \A p \in LoadsDone :
    /\ proc[p].out.kind = "null" => proc[p].seen = <<"absent">>
    /\ (Len(proc[p].seen) = LastAttempt + 1 /\ OnlyBadReads(proc[p].seen)) =>
         proc[p].out.kind = "throw"

\* C13: loadValidation reads the record file at most three times; it does not
\* give up before the third read as long as the reads find an empty or
\* truncated body; and when a read, the earlier ones having found such bodies,
\* finds a complete document, the call returns that document.
C13_CompleteDocumentWithinThreeAttempts ==
  \A p \in DOMAIN proc :
    LET q == proc[p]
        n == Len(q.seen)
    IN  /\ n <= LastAttempt + 1
        /\ (LoadLoopOver(q) /\ q.seen[n] = "complete" /\ OnlyBadReads(SubSeq(q.seen, 1, n - 1))) =>
             /\ WellFormed(q.lastRead)
             /\ q.call = "load" => q.out = Outcome("doc", ParseDoc(q.lastRead))
             /\ q.call = "update" => q.saving = ShallowMerge(ParseDoc(q.lastRead), q.arg)
        /\ (LoadLoopOver(q) /\ OnlyBadReads(q.seen)) =>
             /\ n = LastAttempt + 1
             /\ q.pc = "done"

\* a load whose first read found the record file empty, whose second read
\* found it truncated and whose third read found a complete document, which it
\* returned
C13_Witness ==
  /\ proc # <<>>
  /\ proc["r"].pc = "done"
  /\ proc["r"].seen = <<"empty", "truncated", "complete">>
  /\ proc["r"].out.kind = "doc"
  /\ proc["r"].out.doc = JsonImage(DocFailed)

\* C14: an updateValidation(id, u) that no other writer interferes with, on an
\* existing record, leaves in the record file exactly the shallow merge of the
\* stored record with u (the fields u does not name keep their stored value,
\* the fields it names have the value u gives them) and returns it; on a missing
\* record it returns null and writes nothing.
C14_UpdateWritesShallowMerge ==
  \A w \in DOMAIN proc :
    LET q == proc[w]
    IN  (q.call = "update" /\ q.pc = "done" /\ ~q.disturbed) =>
          /\ q.seen = <<"absent">> =>
               /\ q.out = Outcome("null", NoDoc)
               /\ ~q.wrote
               /\ q.after = NoDoc
          /\ (q.stored # NoDoc /\ q.out.kind # "throw") =>
               /\ q.out = Outcome("doc", ShallowMerge(q.stored, q.arg))
               /\ q.after = JsonImage(ShallowMerge(q.stored, q.arg))
               /\ DOMAIN q.after = (DOMAIN q.stored) \cup (DOMAIN q.arg)
               /\ \A f \in (DOMAIN q.stored) \ (DOMAIN q.arg) : q.after[f] = q.stored[f]
               /\ \A f \in DOMAIN q.arg : q.after[f] = q.arg[f]

\* an update of the record the trigger saved has returned: status and
\* errorMessage are those of the update, id and progress those of the record
C14_Witness ==
  /\ proc # <<>>
  /\ proc["w1"].call = "update"
  /\ proc["w1"].pc = "done"
  /\ ~proc["w1"].disturbed
  /\ proc["w1"].stored = DocInitial
  /\ proc["w1"].out.kind = "doc"
  /\ FileDoc # NoDoc
  /\ FileDoc.status = JsString("FAILED")
  /\ FileDoc.progress = JsNumber("0")
  /\ FileDoc.id = JsString("v1")

\* C15: a loadValidation that begins after a saveValidation(r) completed, with
\* no write to the file system since that save completed and none during the
\* load, returns a record structurally equal to r.
C15_RoundTrip ==
  \A p \in LoadsDone :
    (proc[p].follows # NoDoc /\ ~proc[p].disturbed) =>
      proc[p].out = Outcome("doc", proc[p].follows)

\* ------------------------------------------------------- cache claims
\* C16: a loadCache that finds the entry a saveCache(key, data, ttl) wrote
\* returns data exactly when now < expiresAt, with expiresAt = save time + ttl
\* seconds; at every now >= expiresAt, now = expiresAt included, it returns null
\* and the entry is gone from then on until the key is saved again.
C16_CacheExpiry ==
  (cacheOut # <<>> /\ cacheOut.entry # NoEntry /\ cacheOut.entry.parses) =>
    /\ cacheOut.entry.expiresAt = cacheOut.entry.createdAt + cacheOut.entry.ttl * 1000
    /\ cacheOut.at < cacheOut.entry.expiresAt => cacheOut.value = cacheOut.entry.data
    /\ cacheOut.at >= cacheOut.entry.expiresAt => cacheOut.value = Null

\* ------------------------------------------------------- scorer claims
\* C17: every score field of a score result (marketDemand.score,
\* competition.score, overall.score) is within 0..100, whatever quotes the
\* content analysis returned, negative or very large upvote counts included.
C17_ScoresWithinRange ==
  scores # <<>> =>
    /\ scores.marketDemand.score \in 0..100
    /\ scores.competition.score \in 0..100
    /\ scores.overall.score \in 0..100

\* the mention-volume tier of the table
TableMentionTier(totalMentions) ==
  CASE totalMentions >= 100 -> 30
    [] totalMentions \in 50..99 -> 26
    [] totalMentions \in 25..49 -> 22
    [] totalMentions \in 15..24 -> 18
    [] totalMentions \in 10..14 -> 14
    [] totalMentions \in 5..9 -> 10
    [] totalMentions \in 1..4 -> 6

\* the frustration-percentage tier of the table, on frustrated / total * 100
TableFrustrationTier(frustrated, total) ==
  LET Below(p) == frustrated * 100 < p * total
  IN  CASE ~Below(70) -> 35
        [] Below(70) /\ ~Below(50) -> 28
        [] Below(50) /\ ~Below(35) -> 22
        [] Below(35) /\ ~Below(25) -> 16
        [] Below(25) /\ ~Below(15) -> 12
        [] Below(15) /\ ~Below(10) -> 8
        [] Below(10) -> 4

\* half the average upvotes, capped at 10
TableEngagement(level) ==
  IF level.n >= 20 * level.d THEN Rat(10, 1) ELSE Rat(level.n, 2 * level.d)

RatEq(a, b) == a.n * b.d = b.n * a.d

\* the market demand result is that of the table: tiers, caps and the no-data
\* case, save for how the four parts make the score
TableParts ==
  LET md == scores.marketDemand
      rd == insight.realData
  IN  IF rd = NoRealData \/ rd.totalMentions = 0
        THEN /\ md.score = 15
             /\ md.details.mentionCount = 0
             /\ md.details.frustrationLevel = 0
             /\ md.details.severityScore = 0
             /\ RatEq(md.details.engagementScore, Rat(0, 1))
        ELSE /\ md.details.mentionCount = TableMentionTier(rd.totalMentions)
             /\ md.details.frustrationLevel =
                  TableFrustrationTier(rd.frustratedUsers, rd.totalMentions)
             /\ md.details.severityScore <= 25
             /\ RatEq(md.details.engagementScore, TableEngagement(insight.engagementLevel))

\* the four parts of a market demand result, added up
PartsSum(md) ==
  Rat((md.details.mentionCount + md.details.frustrationLevel + md.details.severityScore)
        * md.details.engagementScore.d + md.details.engagementScore.n,
      md.details.engagementScore.d)

\* C18: calculateMarketDemandScore equals the reference function: without real
\* data or with totalMentions = 0 the score is 15 and the four detail
\* sub-scores are 0; otherwise the score is the mention-volume tier plus the
\* frustration-percentage tier plus the quote-severity score capped at 25 plus
\* the engagement score capped at 10, that sum rounded to the nearest integer.
C18_MarketDemandReference ==
  scores # <<>> =>
    /\ TableParts
    /\ (insight.realData # NoRealData /\ insight.realData.totalMentions > 0) =>
         scores.marketDemand.score = MathRound(PartsSum(scores.marketDemand))

\* C18 as stated: the score is the sum of the four parts itself
C18_MarketDemandExactSum ==
  scores # <<>> =>
    /\ TableParts
    /\ (insight.realData # NoRealData /\ insight.realData.totalMentions > 0) =>
         RatEq(Rat(scores.marketDemand.score, 1), PartsSum(scores.marketDemand))

\* 30 mentions of which 21 frustrated, no severity and no engagement: 22 + 35
C18_Witness ==
  /\ scores # <<>>
  /\ insight.realData # NoRealData
  /\ insight.realData.totalMentions = 30
  /\ insight.realData.frustratedUsers = 21
  /\ scores.marketDemand.details.severityScore = 0
  /\ scores.marketDemand.details.engagementScore.n = 0
  /\ scores.marketDemand.score = 57

\* the grade of the threshold table
TableGrade(score) ==
  CASE score >= 90 -> "A"
    [] score \in 80..89 -> "B+"
    [] score \in 70..79 -> "B"
    [] score \in 60..69 -> "C"
    [] score \in 50..59 -> "D"
    [] score < 50 -> "F"

\* C19: the grade of a score result is that of the threshold table (>= 90 A,
\* >= 80 B+, >= 70 B, >= 60 C, >= 50 D, else F) applied to overall.score, and
\* getGradeFromScore gives, for every score in 0..100, the table's grade and
\* the grade the scorer gives that score.
C19_GradeFromOverallScore ==
  /\ scores # <<>> => scores.overall.grade = TableGrade(scores.overall.score)
  /\ graded # <<>> =>
       /\ graded.grade = TableGrade(graded.score)
       /\ graded.grade = ScorerGrade(graded.score)

\* a score result with overall score 100 and grade A
C19_Witness ==
  /\ scores # <<>>
  /\ scores.overall.score = 100
  /\ scores.overall.grade = "A"

\* C20: overall.score is round(0.60 * marketDemand.score + 0.40 *
\* competition.score) clamped to 0..100, for every pair of sub-scores the two
\* sub-scorers return.
C20_OverallWeightedClamped ==
  scores # <<>> =>
    scores.overall.score =
      Max2(0, Min2(100, MathRound(Rat(6 * scores.marketDemand.score
                                        + 4 * scores.competition.score, 10))))

\* the competitor-mention-percentage tier of the table, on mentions / total * 100
TableCompetitorTier(competitorMentions, totalMentions) ==
  LET Above(p) == totalMentions > 0 /\ competitorMentions * 100 > p * totalMentions
  IN  CASE ~Above(3) -> 40
        [] Above(3) /\ ~Above(8) -> 34
        [] Above(8) /\ ~Above(15) -> 28
        [] Above(15) /\ ~Above(25) -> 22
        [] Above(25) /\ ~Above(40) -> 16
        [] Above(40) /\ ~Above(60) -> 10
        [] Above(60) -> 5

\* the counts a tier is looked up with: at most the quotes kept, and beyond
CountRange == 0..(TopQuotesKept + 1)

\* the values a count tier takes
TierValues(tier(_)) == {tier(c) : c \in CountRange}

\* the competition result is the sum of the three tiers, the complaint tier
\* running from 35 at 10 or more to 8 at none and the gap tier from 25 at 8 or
\* more to 5 at none
CompetitionIsTierSum ==
  LET comp == scores.competition
      total == IF insight.realData = NoRealData THEN 0 ELSE insight.realData.totalMentions
  IN  /\ comp.score = TableCompetitorTier(comp.details.competitorMentions, total)
                      + ComplaintScore(comp.details.userComplaints)
                      + GapScore(comp.details.opportunityGaps)
      /\ \A c \in CountRange : c >= 10 => ComplaintScore(c) = 35
      /\ ComplaintScore(0) = 8
      /\ \A c \in CountRange : c >= 8 => GapScore(c) = 25
      /\ GapScore(0) = 5
      /\ \A c, e \in CountRange :
           c <= e => ComplaintScore(c) <= ComplaintScore(e) /\ GapScore(c) <= GapScore(e)

\* C21: calculateCompetitionScore is the sum of three tiers: the
\* competitor-mention-percentage tier (<= 3%: 40, <= 8%: 34, <= 15%: 28,
\* <= 25%: 22, <= 40%: 16, <= 60%: 10, above: 5), the user-complaint-count tier
\* with 6 tiers from 35 at 10 or more down to 8 at none, and the
\* opportunity-gap-count tier with 5 tiers from 25 at 8 or more down to 5 at
\* none.
C21_CompetitionTierSum ==
  scores # <<>> =>
    /\ CompetitionIsTierSum
    /\ Cardinality(TierValues(ComplaintScore)) = 6
    /\ Cardinality(TierValues(GapScore)) = 5

\* C21 as stated: the user-complaint-count tier has 5 tiers
C21_CompetitionFiveComplaintTiers ==
  scores # <<>> =>
    /\ CompetitionIsTierSum
    /\ Cardinality(TierValues(ComplaintScore)) = 5
    /\ Cardinality(TierValues(GapScore)) = 5

\* ten quotes of which six mention a competitor, complain and look for
\* something else: 10 + 25 + 20
C21_Witness ==
  /\ scores # <<>>
  /\ insight.realData # NoRealData
  /\ insight.realData.totalMentions = 10
  /\ scores.competition.details.competitorMentions = 6
  /\ scores.competition.details.userComplaints = 6
  /\ scores.competition.details.opportunityGaps = 6
  /\ scores.competition.score = 55

\* ------------------------------------------------------- provider claims
\* C22: a call to the generative-text provider that fails with an
\* overload-class error is retried, for at most 3 attempts in all, after which
\* the failure is surfaced as service-unavailable; a failure of any other
\* class is propagated after that attempt, with no retry.
C22_OverloadRetried ==
  (genCall # <<>> /\ genCall.pc = "done") =>
    LET n == Len(genCall.failures)
    IN  /\ genCall.attempts <= 3
        /\ (n > 0 /\ genCall.outcome # "result" /\ IsOverloadError(genCall.failures[n])) =>
             /\ genCall.attempts = 3
             /\ genCall.outcome = "unavailable"
        /\ (n > 0 /\ ~IsOverloadError(genCall.failures[n])) =>
             /\ genCall.outcome = "throw"
             /\ genCall.attempts = n
        /\ \A i \in 1..(n - 1) : IsOverloadError(genCall.failures[i])

\* ------------------------------------------------------- extractor claims
\* an extraction has been made of an object the provider answered with
ObjectExtracted ==
  /\ extraction # <<>>
  /\ extraction.out # NoExtracted
  /\ extraction.members # <<>>

\* what the extractor of a schema makes of a text
Extract(schema, text) ==
  IF schema = "analysis" THEN parseAIResponse(text) ELSE analyzeStartupIdea(text)

\* the string literals of a member list
LiteralsOf(members) ==
  UNION {{members[i].val.body} \cup {members[i].val.items[j] : j \in 1..Len(members[i].val.items)} :
           i \in 1..Len(members)}

HasRawControl(members) ==
  \E body \in LiteralsOf(members) : \E i \in 1..Len(body) : body[i] \in RawControl

HasBackticks(members) ==
  \E body \in LiteralsOf(members) : \E i \in 1..Len(body) : body[i] = "FENCE"

HasTrailingComma(members, trailing) ==
  trailing \/ \E i \in 1..Len(members) : members[i].val.trailing

\* C23: for a well-formed JSON object text j, the extractor applied to j
\* wrapped in markdown code fences, with the json tag or without, returns the
\* record it returns for j itself.
C23_FencedParsesAsUnfenced ==
  (/\ ObjectExtracted
   /\ ~HasRawControl(extraction.members)
   /\ ~HasTrailingComma(extraction.members, extraction.trailing)) =>
    extraction.out =
      Extract(extraction.schema, ObjectText(extraction.members, extraction.pretty, FALSE))

\* a value without its control characters and the spaces put for them
Plain(val) ==
  LET Kept(c) == c \notin {"LF", "CTL", "SP"}
      Clear(body) == SelectSeq(body, Kept)
  IN  MapBodies(val, Clear)

PlainRecord(rec) == [key \in DOMAIN rec |-> Plain(rec[key])]

\* the object of a member list: its members without their defects
OriginalObject(members) ==
  LET Sound(val) == [MapBodies(val, Decode) EXCEPT !.trailing = FALSE]
  IN  [key \in {members[i].key : i \in 1..Len(members)} |->
         Sound(members[CHOOSE i \in 1..Len(members) : members[i].key = key].val)]

\* the strategies of an extractor that parse the text as JSON
ParsingStrategies == {1, 2, 3}

\* C24: a provider text that is a JSON object made invalid only by trailing
\* commas before } or ], or only by raw control characters inside string
\* values, is parsed by a strategy that parses JSON, and the record returned
\* carries the values of the object, not field-level extractions or defaults.
C24_DefectsParsedBySanitization ==
  (/\ ObjectExtracted
   /\ extraction.wrap = "none"
   /\ ~HasBackticks(extraction.members)
   /\ HasRawControl(extraction.members)
        # HasTrailingComma(extraction.members, extraction.trailing)) =>
    /\ extraction.out.strategy \in
         (IF extraction.schema = "analysis" THEN ParsingStrategies ELSE {1, 2})
    /\ PlainRecord(extraction.out.value) =
         PlainRecord(IF extraction.schema = "analysis"
                       THEN OriginalObject(extraction.members)
                       ELSE FormatAnalysis(OriginalObject(extraction.members)))

\* C25: when every earlier strategy of parseAIResponse fails on a provider
\* text, the record returned is the minimal safe default: every array field
\* empty, sentiment 5, a low confidence, and so no content that was not in the
\* provider text.
C25_TerminalFallbackIsSafeDefault ==
  (/\ extraction # <<>>
   /\ extraction.schema = "analysis"
   /\ extraction.out.strategy = 4) =>
    /\ extraction.out.value.relevantQuotes.items = <<>>
    /\ extraction.out.value.painPoints.items = <<>>
    /\ extraction.out.value.keyInsights.items = <<>>
    /\ extraction.out.value.overallSentiment = NumberValue("5")
    /\ extraction.out.value.analysisConfidence \in {NumberValue("0.1"), NumberValue("0.3")}

\* ------------------------------------------------------- answers in a run
\* the answer a step of the run received holds no JSON that parses: prose
\* only, or an object with a comma behind its last member
UnparseableAnswer(schema) ==
  /\ extraction # <<>>
  /\ extraction.schema = schema
  /\ (extraction.members = <<>> \/ extraction.trailing)

\* C26: unparseable provider text is fatal in step 1 (keyword generation): a
\* parse error fails step 1 and the run goes no further; in the content
\* analysis of step 2 it is tolerated: the default result (no quote,
\* sentiment 5, confidence 0.3) is accepted, step 2 does not fail and the run
\* continues past it.
C26_UnparseableFatalOrTolerated ==
  /\ UnparseableAnswer("keywords") =>
       /\ pc = "stepCatch" => err = KeywordParseError
       /\ threwAt = 1 => steps[1].status = "failed"
       /\ result.state \in {"none", "failure"}
       /\ result.state = "failure" => result.error = KeywordParseError.message
       /\ cur = 1
       /\ ~keywordData
       /\ steps[1].status # "completed"
       /\ \A n \in 2..NumSteps : steps[n].status = "pending" /\ invoked[n] = 0
       /\ pc = "done" => (threwAt = 1 /\ result.state = "failure")
       /\ (pc = "done" /\ storeFaults = 0) =>
            (record.status = "FAILED" /\ record.processingSteps[1].status = "failed")
  /\ UnparseableAnswer("analysis") =>
       /\ extraction.out.strategy = 4
       /\ extraction.out.value.relevantQuotes.items = <<>>
       /\ extraction.out.value.overallSentiment = NumberValue("5")
       /\ extraction.out.value.analysisConfidence = NumberValue("0.3")
       /\ redditData = Insight(redditData.posts, 0, 0)
       /\ threwAt # 2
       /\ steps[2].status \in {"processing", "completed"}
       /\ (cur = 2 /\ pc = "stepReturn") => stepResult.success
       /\ cur > 2 => steps[2].status = "completed"

\* the content analysis of step 2 received prose, and the run has ended
\* COMPLETED
C26_Witness ==
  /\ UnparseableAnswer("analysis")
  /\ extraction.text = <<Prose>>
  /\ pc = "done"
  /\ record.status = "COMPLETED"
  /\ invoked[NumSteps] = 1

\* the keyword generation of step 1 received prose, and the run has ended
\* FAILED at step 1
C26_FatalCaseReached ==
  /\ UnparseableAnswer("keywords")
  /\ extraction.text = <<Prose>>
  /\ pc = "done"
  /\ record.status = "FAILED"
  /\ threwAt = 1

\* ------------------------------------------------------- search claims
\* C27: in the discussion search the probes are issued one at a time, never
\* two at once, and between any two consecutive probe requests the fixed
\* delay of 1500 ms elapses, whether the earlier probe succeeded or failed.
C27_ProbesSequentialAndDelayed ==
  search # <<>> =>
    /\ search.outstanding <= 1
    /\ search.probes >= 2 => search.gap >= RateLimitDelay

\* ------------------------------------------------------- the completed record
\* C28: the persisted record has status COMPLETED only if all ten steps have
\* status 'completed' and progress is 100, and it holds a finalScore exactly
\* when its status is COMPLETED.
C28_CompletedRecordInvariant ==
  record # NoFile =>
    /\ record.status = "COMPLETED" =>
         /\ \A n \in StepNumbers : record.processingSteps[n].status = "completed"
         /\ record.progress = 100
    /\ ("finalScore" \in DOMAIN record) <=> (record.status = "COMPLETED")

\* the COMPLETED write of a run with relevant quotes has been persisted
C28_Witness ==
  /\ record # NoFile
  /\ record.status = "COMPLETED"
  /\ "finalScore" \in DOMAIN record
  /\ record.finalScore.realData.redditMentions > 0
  /\ record.progress = 100

\* C30: a run whose discussion search yields zero relevant quotes and that
\* completes publishes exactly marketDemand 15, competition 53 (40 + 8 + 5),
\* overall 30, grade F and confidence 10.
C30_ZeroQuoteRunScores ==
  /\ (ZeroDiscussions /\ result.state = "success") =>
       /\ result.finalScore.marketDemand = 15
       /\ result.finalScore.competition = 53
       /\ result.finalScore.competition = 40 + 8 + 5
       /\ result.finalScore.overall = 30
       /\ result.finalScore.grade = "F"
       /\ result.finalScore.confidence = 10
  /\ (ZeroDiscussions /\ record # NoFile /\ record.status = "COMPLETED") =>
       record.finalScore = result.finalScore

\* posts were collected, the content analysis found no relevant quote in
\* them, and the run ended COMPLETED
C30_Witness ==
  /\ ZeroDiscussions
  /\ redditData.posts > 0
  /\ extraction.out.strategy = 1
  /\ pc = "done"
  /\ record.status = "COMPLETED"
  /\ record.finalScore.overall = 30

====
